---- MODULE Spec2Model ----
(***************************************************************************)
(* A model of the data pipeline of the FoE buildings database:             *)
(*   - the raw asset parser   (src/data_loader.py, BuildingAnalyzer)       *)
(*   - the scoring engine     (src/calculations.py)                        *)
(*   - the filter engine      (src/advanced_filters.py)                    *)
(*   - the loading entry point (src/data_loader.py, load_and_process_data) *)
(*   - the per-era statistics (src/calculations.py, calculate_era_stats)   *)
(*   - the column selector    (src/column_selector.py)                     *)
(*                                                                         *)
(* Numbers.  Python floats are modelled as exact rationals [n, d] in       *)
(* lowest terms, with a third kind of value, NaN, for a missing cell.      *)
(***************************************************************************)
EXTENDS Integers, Sequences, FiniteSets, TLC

VARIABLES
    \* ---- the per-building parser functions (src/data_loader.py)
    arg_components,  \* the 'components' dict the parser functions are called with
    arg_era_key,     \* the era_key they are called with
    parse_pc,        \* "ready" before the call, "done" after it
    size_data,       \* the value returned by _calculate_size_data
    pop_happiness,   \* the value returned by _get_pop_happiness
    production,      \* the value returned by _get_production_data
    boost_fields,    \* the value returned by _get_boost_data
    \* ---- calculate_direct_weighted_efficiency (src/calculations.py)
    df,              \* the table handed to the scoring function: a sequence of rows
    user_weights,    \* metric -> points per unit
    user_context,    \* context key -> daily production
    user_boosts,     \* boost key -> current city boost in percent
    score_pc,        \* "ready" before the call, "returned" after it
    row_locals,      \* per evaluated row: the locals of the loop body
    \* ---- BuildingAnalyzer.load_data (src/data_loader.py)
    raw_building_data,   \* the parsed JSON: a sequence of building entries
    building_data_list,  \* self.building_data_list: a sequence of records
    load_counts,         \* processed_count, skipped_asset_id, no_components, error_count
    load_pc,             \* "ready" before the call, then "done" or "raised"
    \* ---- calculate_weighted_efficiency, the legacy wrapper (src/calculations.py)
    legacy_args,         \* selected_translated_era, and which optional arguments are given
    \* ---- AdvancedFilterManager (src/advanced_filters.py)
    manager_df,          \* self.df: the table the manager is built with, a sequence of rows
    advanced_filters,    \* st.session_state.advanced_filters, in insertion order
    filter_logic,        \* st.session_state.filter_logic
    widget_values,       \* the two operands entered in the 'between' inputs, as entered
    filtered_df,         \* the value returned by _apply_filters: the surviving row ids
    filter_pc,           \* "render" while filters are edited, then "applied" or "raised"
    \* ---- load_and_process_data, analyze, calculate_era_stats (src/data_loader.py, src/calculations.py)
    source,              \* the metadata source: whether it exists and can be read, and its entries
    analyzer_df,         \* the table built by analyze(), as returned by load_and_process_data
    era_stats,           \* the value returned by calculate_era_stats
    pipeline_pc,         \* "ready", "loaded" after load_and_process_data, "stats" after calculate_era_stats
    \* ---- ColumnSelector (src/column_selector.py)
    selected_columns_set,  \* st.session_state.selected_columns_set
    search_term,           \* the text typed in the column search box
    returned_columns,      \* the list returned by render_enhanced_column_selector
    selector_pc            \* "fresh" before the first render, then "render" or "returned"

parseVars == <<arg_components, arg_era_key, parse_pc, size_data, pop_happiness, production, boost_fields>>

scoreVars == <<df, user_weights, user_context, user_boosts, score_pc, row_locals>>

loadVars == <<raw_building_data, building_data_list, load_counts, load_pc>>

legacyVars == <<legacy_args>>

filterVars == <<manager_df, advanced_filters, filter_logic, widget_values, filtered_df, filter_pc>>

pipelineVars == <<source, analyzer_df, era_stats, pipeline_pc>>

selectorVars == <<selected_columns_set, search_term, returned_columns, selector_pc>>

vars == <<parseVars, scoreVars, loadVars, legacyVars, filterVars, pipelineVars, selectorVars>>

\* the value of a result variable before its function has returned
None == "None"

\* the variables of a part of the program that a specification does not run
ParseIdle ==
    /\ arg_components = <<>>
    /\ arg_era_key = None
    /\ parse_pc = "idle"
    /\ size_data = None
    /\ pop_happiness = None
    /\ production = None
    /\ boost_fields = None

ScoreIdle ==
    /\ df = <<>>
    /\ user_weights = <<>>
    /\ user_context = <<>>
    /\ user_boosts = <<>>
    /\ score_pc = "idle"
    /\ row_locals = <<>>

LoadIdle ==
    /\ raw_building_data = <<>>
    /\ building_data_list = <<>>
    /\ load_counts = <<>>
    /\ load_pc = "idle"

LegacyIdle == legacy_args = <<>>

FilterIdle ==
    /\ manager_df = <<>>
    /\ advanced_filters = <<>>
    /\ filter_logic = "AND"
    /\ widget_values = <<>>
    /\ filtered_df = {}
    /\ filter_pc = "idle"

PipelineIdle ==
    /\ source = <<>>
    /\ analyzer_df = <<>>
    /\ era_stats = <<>>
    /\ pipeline_pc = "idle"

SelectorIdle ==
    /\ selected_columns_set = {}
    /\ search_term = ""
    /\ returned_columns = <<>>
    /\ selector_pc = "idle"

(***************************************************************************)
(* Bounds of the model.                                                    *)
(***************************************************************************)
MaxRows == 2

MaxDim == 5

MaxPop == 2

(***************************************************************************)
(* Generic helpers.                                                        *)
(***************************************************************************)
SeqUpTo(S, n) == UNION {[1..k -> S] : k \in 0..n}

Abs(i) == IF i < 0 THEN -i ELSE i

RECURSIVE GCD(_, _)
GCD(a, b) == IF b = 0 THEN a ELSE GCD(b, a % b)

\* dict[k] = v, adding the key when it is absent
Put(f, k, v) == [c \in (DOMAIN f) \cup {k} |-> IF c = k THEN v ELSE f[c]]

(***************************************************************************)
(* Float values: a rational in lowest terms, or NaN.                       *)
(***************************************************************************)
NaN == [nan |-> TRUE, n |-> 0, d |-> 1]

Rat(num, den) ==
    LET s == IF den < 0 THEN -1 ELSE 1
        g == GCD(Abs(num), Abs(den))
    IN  [nan |-> FALSE, n |-> (s * num) \div g, d |-> (s * den) \div g]

Num(i) == [nan |-> FALSE, n |-> i, d |-> 1]

Zero == Num(0)

FAdd(a, b) == IF a.nan \/ b.nan THEN NaN ELSE Rat(a.n * b.d + b.n * a.d, a.d * b.d)

FMul(a, b) == IF a.nan \/ b.nan THEN NaN ELSE Rat(a.n * b.n, a.d * b.d)

\* a / b for b # 0 (every divisor of the scoring code is 1 + boost/100 > 0, 100,
\* or a footprint already tested > 0)
FDiv(a, b) == IF a.nan \/ b.nan THEN NaN ELSE Rat(a.n * b.d, a.d * b.n)

\* a >= b; False when either is NaN
FGe(a, b) == ~a.nan /\ ~b.nan /\ a.n * b.d >= b.n * a.d

\* a > 0; False for NaN, as every comparison with NaN is
FPos(a) == ~a.nan /\ a.n > 0

\* pd.notna
notna(a) == ~a.nan

\* round(x, ndigits) with scale = 10^ndigits: to the nearest multiple of
\* 1/scale, ties to the even one
RoundScale(a, scale) ==
    IF a.nan THEN NaN
    ELSE LET q == (scale * a.n) \div a.d
             r == scale * a.n - q * a.d
             t == IF 2 * r < a.d THEN q
                  ELSE IF 2 * r > a.d THEN q + 1
                  ELSE IF q % 2 = 0 THEN q ELSE q + 1
         IN  Rat(t, scale)

\* round(x, 1)
Round1(a) == RoundScale(a, 10)

\* round(x, 2)
Round2(a) == RoundScale(a, 100)

\* dict.get(key, default) / Series.get(key, default)
Get(f, k, default) == IF k \in DOMAIN f THEN f[k] ELSE default

(***************************************************************************)
(* The raw building JSON (src/data_loader.py).                             *)
(*                                                                         *)
(* A component (the value of one key of an entry's 'components') is a      *)
(* record of the fields the parser reads.  isDict = FALSE stands for a     *)
(* JSON value that is not an object (a non-empty string, say), on which    *)
(* every .get raises AttributeError.  A key that is absent and a key whose *)
(* value is {} read the same through components.get(key, {}).              *)
(***************************************************************************)
EmptyComponent ==
    [ isDict     |-> TRUE,
      size_x     |-> 0,            \* placement.size.x, 0 when absent
      size_y     |-> 0,            \* placement.size.y, 0 when absent
      street     |-> FALSE,        \* 'streetConnectionRequirement' is a key
      population |-> 0,            \* staticResources.resources.resources.population
      provided   |-> 0,            \* happiness.provided
      limited    |-> [kind |-> "absent", value |-> 0],
      ally       |-> [kind |-> "absent", allyType |-> "", rarity |-> ""],
      production |-> [kind |-> "absent", products |-> <<>>],
      boosts     |-> <<>> ]

\* components.get(key, {})
ComponentGet(components, key) ==
    IF key \in DOMAIN components THEN components[key] ELSE EmptyComponent

\* str.capitalize() on the strings of the model
Capitalize(str) ==
    CASE str = "military" -> "Military"
      [] str = "economy"  -> "Economy"
      [] str = "unknown"  -> "Unknown"
      [] str = "epic"     -> "Epic"
      [] str = "RARE"     -> "Rare"
      [] OTHER            -> str

\* _calculate_size_data raises: components.get('AllAge', {}).get(...) on a non-dict
calculate_size_data_raises(components) == ~ComponentGet(components, "AllAge").isDict

Min(a, b) == IF a <= b THEN a ELSE b

\* mutant of _calculate_size_data: the road surcharge is max(width, height) / 2
calculate_size_data_max(components) ==
    LET all_age   == ComponentGet(components, "AllAge")
        height    == all_age.size_y
        width     == all_age.size_x
        needs_road == all_age.street
        larger    == IF width >= height THEN width ELSE height
    IN  [ width |-> width, height |-> height,
          size_string |-> <<height, "x", width>>,
          total_squares |-> IF needs_road
                            THEN FAdd(Num(height * width), Rat(larger, 2))
                            ELSE Num(height * width),
          needs_road |-> needs_road ]

\* _calculate_size_data: (width, height, size_string, total_squares, needs_road)
calculate_size_data(components) ==
    LET all_age   == ComponentGet(components, "AllAge")
        height    == all_age.size_y
        width     == all_age.size_x
        needs_road == all_age.street
    IN  [ width |-> width, height |-> height,
          size_string |-> <<height, "x", width>>,
          total_squares |-> IF needs_road
                            THEN FAdd(Num(height * width), Rat(Min(width, height), 2))
                            ELSE Num(height * width),
          needs_road |-> needs_road ]

\* _check_limitations raises: on a non-dict AllAge
check_limitations_raises(components) == ~ComponentGet(components, "AllAge").isDict

\* _check_limitations: "No", "Yes - N days", "Yes - N collections", "Yes - Other"
check_limitations(components) ==
    LET limited == ComponentGet(components, "AllAge").limited
    IN  CASE limited.kind = "absent"           -> <<"No">>
          [] limited.kind = "expireTime"       -> <<"Yes", limited.value \div 86400, "days">>
          [] limited.kind = "collectionAmount" -> <<"Yes", limited.value, "collections">>
          [] OTHER                             -> <<"Yes", "Other">>

\* _get_ally_room raises: on a non-dict AllAge, and IndexError on 'rooms': []
get_ally_room_raises(components) ==
    \/ ~ComponentGet(components, "AllAge").isDict
    \/ ComponentGet(components, "AllAge").ally.kind = "no_rooms"

\* _get_ally_room: 'No', "<Type> - <Rarity>", "<Type> - Any rarity"
get_ally_room(components) ==
    LET ally == ComponentGet(components, "AllAge").ally
    IN  CASE ally.kind = "absent"  -> <<"No">>
          [] ally.rarity # ""      -> <<Capitalize(ally.allyType), Capitalize(ally.rarity)>>
          [] OTHER                 -> <<Capitalize(ally.allyType), "Any rarity">>

\* _get_pop_happiness raises: .get on a non-dict (and non-empty) component
get_pop_happiness_raises(components, era_key) ==
    \/ ~ComponentGet(components, era_key).isDict
    \/ ~ComponentGet(components, "AllAge").isDict

\* "if current != 0: value = current", for the component of one key
TakeNonZero(value, current) == IF current # 0 THEN current ELSE value

\* _get_pop_happiness: for component_key in [era_key, 'AllAge'], in that order
get_pop_happiness(components, era_key) ==
    LET era == ComponentGet(components, era_key)
        all_age == ComponentGet(components, "AllAge")
    IN  [ pop       |-> TakeNonZero(TakeNonZero(0, era.population), all_age.population),
          happiness |-> TakeNonZero(TakeNonZero(0, era.provided), all_age.provided) ]

(***************************************************************************)
(* _get_production_data (src/data_loader.py): the reward shapes.           *)
(*                                                                         *)
(* A product option is a record of the fields the parser reads:            *)
(*   type        'resources', 'unit', 'guildResources', 'genericReward',   *)
(*               'random', or anything else                                *)
(*   resources   playerResources.resources / guildResources.resources      *)
(*   unitTypeId, amount      of a 'unit' option                            *)
(*   reward_id   reward.id of a 'genericReward' option                     *)
(*   name        the option's own 'name' ("" when absent)                  *)
(*   products    of a 'random' option: records [dropChance, product]       *)
(* Reward ids are strings; the substring tests of the code ("'Next' in     *)
(* reward_id") read the table Marks, which lists, for every id of the      *)
(* model, the tested substrings it contains.                               *)
(***************************************************************************)
NoResources == [k \in {} |-> 0]

Option(type) ==
    [ type |-> type, resources |-> NoResources, unitTypeId |-> "", amount |-> 0,
      reward_id |-> "", name |-> "", products |-> <<>> ]

ResourcesOption(key, amount) == [Option("resources") EXCEPT !.resources = [k \in {key} |-> amount]]

GuildResourcesOption(key, amount) ==
    [Option("guildResources") EXCEPT !.resources = [k \in {key} |-> amount]]

UnitOption(unit_id, amount) == [Option("unit") EXCEPT !.unitTypeId = unit_id, !.amount = amount]

GenericRewardOption(reward_id) == [Option("genericReward") EXCEPT !.reward_id = reward_id]

\* a 'random' option with one product, of drop chance pct / 100
RandomOption(pct, product) ==
    [Option("random") EXCEPT !.products = <<[dropChance |-> Rat(pct, 100), product |-> product]>>]

\* the tested substrings that a reward id (or unit id) of the model contains
Marks(id) ==
    CASE id = "good#CurrentEra"          -> {"Current"}
      [] id = "special_goods#random"     -> {"special"}
      [] id = "good#NextEra"             -> {"Next", "NextEra"}
      [] id = "good#PreviousEra"         -> {"Previous"}
      [] id = "guild_goods#each"         -> {"guild_goods"}
      [] id = "unit#rogue"               -> {"rogue"}
      [] id = "unit#fast#CurrentEra"     -> {"fast", "Current"}
      [] id = "unit#heavy_melee#NextEra" -> {"heavy_melee", "Next", "NextEra"}
      [] id = "chest#random_unit"        -> {"random_unit"}
      [] id = "chest#next_age_unit"      -> {"next_age_unit", "next_age"}
      [] id = "chest#goods#NextEra"      -> {"Next", "NextEra"}
      [] id = "forgepoint_package#large" -> {"forgepoint_package", "large"}
      [] id = "NextEraheavy_melee"       -> {"heavy_melee", "Next", "NextEra"}
      [] OTHER                           -> {}

\* "sub in id"
Contains(id, sub) == sub \in Marks(id)

\* unit_id.replace("NextEra", "")
RemoveNextEra(unit_id) == IF unit_id = "NextEraheavy_melee" THEN "heavy_melee" ELSE unit_id

NoPossible == [kind |-> "absent", drop_chance |-> 100, amount |-> 0, type |-> "", id |-> ""]

NoLookup ==
    [ present |-> FALSE, type |-> "", amount |-> 0, subType |-> "", assembledReward |-> "",
      requiredAmount |-> 1, name |-> "", rewards0 |-> "", possible |-> NoPossible ]

Lookup(type, amount, name) ==
    [NoLookup EXCEPT !.present = TRUE, !.type = type, !.amount = amount, !.name = name]

\* component_data['lookup']['rewards'].get(reward_id): the lookup table of the model
LookupRewards(reward_id) ==
    CASE reward_id = "good#CurrentEra"      -> Lookup("good", 5, "Goods")
      [] reward_id = "special_goods#random" -> Lookup("special_goods", 6, "Special Goods")
      [] reward_id = "good#NextEra"         -> Lookup("good", 3, "Next Age Goods")
      [] reward_id = "good#PreviousEra"     -> Lookup("good", 4, "Previous Age Goods")
      [] reward_id = "guild_goods#each"     -> Lookup("guild_goods", 7, "Guild Goods")
      [] reward_id = "store_building"       -> Lookup("consumable", 1, "Store Building")
      [] reward_id = "boost_crate"          -> Lookup("consumable", 1, "Boost Crate")
      [] reward_id = "fragment#store_building" ->
            [Lookup("consumable", 1, "Fragment of Store Building") EXCEPT
                !.subType = "fragment", !.assembledReward = "store_building",
                !.requiredAmount = 3]
      [] reward_id = "fragment#selection_kit" ->
            [Lookup("consumable", 1, "Fragment of Selection Kit") EXCEPT
                !.subType = "fragment", !.assembledReward = "selection_kit",
                !.requiredAmount = 3]
      [] reward_id = "set#self_aid" ->
            [Lookup("set", 2, "Self Aid Set") EXCEPT !.rewards0 = "self_aid_kit"]
      [] reward_id = "set#portraits" ->
            [Lookup("set", 1, "Portrait Set") EXCEPT !.rewards0 = "portrait"]
      [] reward_id = "unit#rogue"               -> Lookup("unit", 2, "Rogues")
      [] reward_id = "unit#fast#CurrentEra"     -> Lookup("unit", 1, "Fast Unit")
      [] reward_id = "unit#heavy_melee#NextEra" -> Lookup("unit", 1, "Next Age Heavy Unit")
      [] reward_id = "chest#random_unit" ->
            [Lookup("chest", 1, "Random Unit Chest") EXCEPT
                !.possible = [kind |-> "first", drop_chance |-> 20, amount |-> 5,
                              type |-> "unit", id |-> "unit#fast#CurrentEra"]]
      [] reward_id = "chest#next_age_unit" ->
            [Lookup("chest", 1, "Next Age Unit Chest") EXCEPT
                !.possible = [kind |-> "first", drop_chance |-> 20, amount |-> 5,
                              type |-> "unit", id |-> "unit#heavy_melee#NextEra"]]
      [] reward_id = "chest#goods#NextEra" ->
            [Lookup("chest", 1, "Next Age Goods Chest") EXCEPT
                !.possible = [kind |-> "first", drop_chance |-> 50, amount |-> 10,
                              type |-> "good", id |-> "good#NextEra"]]
      [] reward_id = "chest#broken" ->
            [Lookup("chest", 1, "Empty Chest") EXCEPT !.possible.kind = "empty"]
      [] reward_id = "forgepoint_package#large" -> Lookup("forgepoint_package", 1, "10 FP")
      [] reward_id = "blueprint#random"         -> Lookup("blueprint", 1, "Blueprint")
      [] OTHER -> NoLookup

\* prod_map
prod_map(json_key) ==
    CASE json_key = "money"                            -> "coins"
      [] json_key = "supplies"                         -> "supplies"
      [] json_key = "medals"                           -> "medals"
      [] json_key = "strategy_points"                  -> "forge_points"
      [] json_key = "forgepoint_package"               -> "forgepoint_package"
      [] json_key = "all_goods_of_age"                 -> "goods"
      [] json_key = "random_good_of_age"               -> "goods"
      [] json_key = "all_goods_of_previous_age"        -> "prev_age_goods"
      [] json_key = "random_good_of_previous_age"      -> "prev_age_goods"
      [] json_key = "all_goods_of_next_age"            -> "next_age_goods"
      [] json_key = "random_good_of_next_age"          -> "next_age_goods"
      [] json_key = "random_special_good_up_to_age"    -> "special_goods"
      [] OTHER                                         -> ""

\* guild_prod_map
guild_prod_map(json_key) == IF json_key = "all_goods_of_age" THEN "guild_goods" ELSE ""

\* unit_type_map, in the order of the dict
unit_type_map ==
    << <<"heavy_melee", "Heavy">>, <<"fast", "Fast">>, <<"short_ranged", "Ranged">>,
       <<"long_ranged", "Artillery">>, <<"light_melee", "Light">> >>

\* unit_type_map.get(unit_id), "" when unit_id is no key
UnitName(unit_id) ==
    IF \E i \in DOMAIN unit_type_map : unit_type_map[i][1] = unit_id
    THEN unit_type_map[CHOOSE i \in DOMAIN unit_type_map : unit_type_map[i][1] = unit_id][2]
    ELSE ""

\* consumables_map
consumables_map(reward_id) ==
    CASE reward_id = "rush_event_buildings_instant" -> "finish_special_production"
      [] reward_id = "rush_goods_buildings_instant" -> "finish_goods_production"
      [] reward_id = "store_building"               -> "store_kit"
      [] reward_id = "mass_self_aid_kit"            -> "mass_self_aid_kit"
      [] reward_id = "self_aid_kit"                 -> "self_aid_kit"
      [] reward_id = "renovation_kit"               -> "renovation_kit"
      [] reward_id = "one_up_kit"                   -> "one_up_kit"
      [] reward_id = "rush_mass_supplies_24h"       -> "finish_all_supplies"
      [] OTHER                                      -> ""

\* the numeric keys of the production dict
ProductionKeys ==
    { "coins", "supplies", "medals", "forge_points", "forgepoint_package",
      "goods", "next_age_goods", "prev_age_goods", "special_goods", "guild_goods",
      "units_amount", "fast_units", "heavy_units", "ranged_units",
      "artillery_units", "light_units", "rogues_units",
      "next_age_units_amount", "next_age_fast_units", "next_age_heavy_units",
      "next_age_ranged_units", "next_age_artillery_units", "next_age_light_units",
      "finish_special_production", "finish_goods_production", "store_kit",
      "mass_self_aid_kit", "self_aid_kit", "renovation_kit", "one_up_kit",
      "finish_all_supplies" }

\* the keys of the units / next_age_units dicts, in the order of the dict
UnitNames == <<"Fast", "Heavy", "Light", "Ranged", "Artillery">>

UnitNameSet == {UnitNames[i] : i \in DOMAIN UnitNames}

\* the locals of _get_production_data before the loop
InitialProduction ==
    [ production         |-> [k \in ProductionKeys |-> Zero],
      units              |-> [u \in UnitNameSet |-> Zero],
      next_age_units     |-> [u \in UnitNameSet |-> Zero],
      goods_next_temp    |-> Zero,
      goods_prev_temp    |-> Zero,
      goods_special_temp |-> Zero,
      rogues_temp        |-> Zero,
      guild_goods_temp   |-> Zero,
      other_items_temp   |-> {},
      raised             |-> FALSE ]

(***************************************************************************)
(* _get_production_data: the loop over the products of a component.  The   *)
(* locals of the function are the record acc (see InitialProduction);      *)
(* acc.raised records an exception leaving the function.  Every component  *)
(* carries the same lookup table LookupRewards.                            *)
(***************************************************************************)
\* d[k] += v
AddTo(d, k, v) == [d EXCEPT ![k] = FAdd(@, v)]

\* int(prod_drop_chance * 100), for a chance that is not negative
IntPct(chance) == (chance.n * 100) \div chance.d

\* other_items_temp.append(name) of the direct branch
DirectLabel(name) == <<name>>

\* other_items_temp.append(f"{name} ({int(prod_drop_chance*100)}%)") of the random branch
RandomLabel(name, chance) == <<name, IntPct(chance)>>

\* for json_key, amount in resources.items(), through mapping, each amount times factor;
\* in a random group a 'guild_goods' key that prod_map lacks goes to guild_goods_temp
RECURSIVE AddResources(_, _, _, _, _, _)
AddResources(acc, resources, keys, guild, factor, in_random) ==
    IF keys = {} THEN acc
    ELSE LET json_key == CHOOSE k \in keys : TRUE
             amount   == FMul(Num(resources[json_key]), factor)
             target   == IF guild THEN guild_prod_map(json_key) ELSE prod_map(json_key)
             step     == IF target # ""
                         THEN [acc EXCEPT !.production = AddTo(@, target, amount)]
                         ELSE IF in_random /\ json_key = "guild_goods"
                              THEN [acc EXCEPT !.guild_goods_temp = FAdd(@, amount)]
                              ELSE acc
         IN  AddResources(step, resources, keys \ {json_key}, guild, factor, in_random)

\* option_type == 'unit'
UnitPayload(acc, option) ==
    LET unit_id    == option.unitTypeId
        amount     == Num(option.amount)
        cleaned_id == RemoveNextEra(unit_id)
    IN  IF unit_id = "rogue"
        THEN [acc EXCEPT !.rogues_temp = FAdd(@, amount)]
        ELSE IF UnitName(unit_id) # ""
        THEN [acc EXCEPT !.units = AddTo(@, UnitName(unit_id), amount)]
        ELSE IF unit_id # "" /\ Contains(unit_id, "NextEra") /\ UnitName(cleaned_id) # ""
        THEN [acc EXCEPT !.next_age_units = AddTo(@, UnitName(cleaned_id), amount)]
        ELSE acc

\* reward_type == 'consumable'; factor is 1 in the direct branch, the drop chance in a
\* random group, label the entry appended to other_items_temp
ConsumableReward(acc, reward_id, reward_lookup, reward_amount, factor, label) ==
    IF reward_lookup.subType = "fragment"
    THEN LET assembled == reward_lookup.assembledReward
         IN  IF consumables_map(assembled) # ""
             THEN [acc EXCEPT !.production =
                      AddTo(@, consumables_map(assembled),
                            FMul(FDiv(reward_amount, Num(reward_lookup.requiredAmount)), factor))]
             ELSE [acc EXCEPT !.other_items_temp = @ \cup {label}]
    ELSE IF consumables_map(reward_id) # ""
    THEN [acc EXCEPT !.production =
             AddTo(@, consumables_map(reward_id), FMul(reward_amount, factor))]
    ELSE [acc EXCEPT !.other_items_temp = @ \cup {label}]

\* reward_type == 'set'
SetReward(acc, reward_lookup, reward_amount, factor, label) ==
    LET first_id == reward_lookup.rewards0
    IN  IF consumables_map(first_id) # ""
        THEN [acc EXCEPT !.production =
                 AddTo(@, consumables_map(first_id), FMul(reward_amount, factor))]
        ELSE [acc EXCEPT !.other_items_temp = @ \cup {label}]

\* reward_type in ['good', 'special_goods', 'guild_goods']
GoodsReward(acc, reward_id, reward_amount, factor) ==
    LET amount == FMul(reward_amount, factor)
    IN  IF Contains(reward_id, "Current")
        THEN [acc EXCEPT !.production = AddTo(@, "goods", amount)]
        ELSE IF Contains(reward_id, "special")
        THEN [acc EXCEPT !.goods_special_temp = FAdd(@, amount)]
        ELSE IF Contains(reward_id, "Next")
        THEN [acc EXCEPT !.goods_next_temp = FAdd(@, amount)]
        ELSE IF Contains(reward_id, "Previous")
        THEN [acc EXCEPT !.goods_prev_temp = FAdd(@, amount)]
        ELSE IF Contains(reward_id, "guild_goods")
        THEN [acc EXCEPT !.guild_goods_temp = FAdd(@, amount)]
        ELSE acc

\* the first unit_json_id of unit_type_map with "unit_json_id in a or unit_json_id in b",
\* as an index, 0 when there is none
FirstUnitIn(a, b) ==
    LET hits == {i \in DOMAIN unit_type_map :
                    Contains(a, unit_type_map[i][1]) \/ Contains(b, unit_type_map[i][1])}
    IN  IF hits = {} THEN 0 ELSE CHOOSE i \in hits : \A j \in hits : i <= j

\* reward_type == 'unit'
UnitReward(acc, reward_id, reward_amount, factor) ==
    LET amount == FMul(reward_amount, factor)
        first  == FirstUnitIn(reward_id, "")
    IN  IF Contains(reward_id, "rogue")
        THEN [acc EXCEPT !.rogues_temp = FAdd(@, amount)]
        ELSE IF first = 0 THEN acc
        ELSE IF Contains(reward_id, "Current")
        THEN [acc EXCEPT !.units = AddTo(@, unit_type_map[first][2], amount)]
        ELSE IF Contains(reward_id, "NextEra")
        THEN [acc EXCEPT !.next_age_units = AddTo(@, unit_type_map[first][2], amount)]
        ELSE acc

\* d[unit_name] += v for every unit_name of unit_type_map
AddToAllUnits(d, v) == [u \in DOMAIN d |-> FAdd(d[u], v)]

\* reward_type == 'chest' of a direct genericReward option
ChestDirect(acc, reward_id, reward_lookup) ==
    LET possible            == reward_lookup.possible
        first_reward_amount == Num(possible.amount)
        by_chance           == FDiv(FMul(first_reward_amount, Num(possible.drop_chance)), Num(100))
    IN  IF possible.kind = "empty" THEN [acc EXCEPT !.raised = TRUE]
        ELSE IF Contains(reward_id, "NextEra") /\ possible.type = "good"
        THEN [acc EXCEPT !.goods_next_temp = FAdd(@, first_reward_amount)]
        ELSE IF Contains(reward_id, "next_age_unit")
        THEN [acc EXCEPT !.next_age_units = AddToAllUnits(@, by_chance)]
        ELSE IF Contains(reward_id, "random_unit")
        THEN [acc EXCEPT !.units = AddTo(@, unit_type_map[1][2], by_chance)]
        ELSE acc

\* reward_type == 'chest' of a product of a random group
ChestRandom(acc, reward_id, reward_lookup, prod_drop_chance) ==
    LET possible            == reward_lookup.possible
        first_reward_amount == Num(possible.amount)
        chest_inner_chance  == FDiv(Num(possible.drop_chance), Num(100))
        effective_chance    == FMul(prod_drop_chance, chest_inner_chance)
        amount              == FMul(first_reward_amount, effective_chance)
        first               == FirstUnitIn(reward_id, possible.id)
    IN  IF possible.kind = "empty" THEN [acc EXCEPT !.raised = TRUE]
        ELSE IF (Contains(reward_id, "NextEra") \/ Contains(reward_id, "next_age"))
                /\ possible.type = "good"
        THEN [acc EXCEPT !.goods_next_temp = FAdd(@, amount)]
        ELSE IF Contains(reward_id, "next_age_unit")
        THEN IF first = 0 THEN acc
             ELSE [acc EXCEPT !.next_age_units = AddTo(@, unit_type_map[first][2], amount)]
        ELSE IF Contains(reward_id, "random_unit")
        THEN IF first = 0 THEN acc
             ELSE [acc EXCEPT !.units = AddTo(@, unit_type_map[first][2], amount)]
        ELSE acc

\* fp_val of a forgepoint package
FpVal(reward_id) ==
    IF Contains(reward_id, "large") THEN 10
    ELSE IF Contains(reward_id, "medium") THEN 5
    ELSE IF Contains(reward_id, "small") THEN 2
    ELSE 0

\* 'forgepoint_package' in reward_id
ForgepointPackage(acc, reward_id, reward_amount, factor) ==
    [acc EXCEPT !.production =
        AddTo(@, "forgepoint_package", FMul(FMul(Num(FpVal(reward_id)), reward_amount), factor))]

\* option_type == 'genericReward': no branch for a reward_type that is none of those tested
GenericRewardDirect(acc, option) ==
    LET reward_id     == option.reward_id
        reward_lookup == LookupRewards(reward_id)
        reward_type   == reward_lookup.type
        reward_amount == Num(reward_lookup.amount)
        label         == DirectLabel(reward_lookup.name)
    IN  IF ~reward_lookup.present THEN acc
        ELSE IF reward_type = "consumable"
        THEN ConsumableReward(acc, reward_id, reward_lookup, reward_amount, Num(1), label)
        ELSE IF reward_type = "set"
        THEN SetReward(acc, reward_lookup, reward_amount, Num(1), label)
        ELSE IF reward_type \in {"good", "special_goods", "guild_goods"}
        THEN GoodsReward(acc, reward_id, reward_amount, Num(1))
        ELSE IF reward_type = "unit"
        THEN UnitReward(acc, reward_id, reward_amount, Num(1))
        ELSE IF reward_type = "chest"
        THEN ChestDirect(acc, reward_id, reward_lookup)
        ELSE IF Contains(reward_id, "forgepoint_package")
        THEN ForgepointPackage(acc, reward_id, reward_amount, Num(1))
        ELSE acc

\* prod_type == 'genericReward' inside a random group
GenericRewardRandom(acc, product_data, prod_drop_chance, component_key) ==
    LET reward_id     == product_data.reward_id
        reward_lookup == LookupRewards(reward_id)
        reward_type   == reward_lookup.type
        reward_amount == Num(reward_lookup.amount)
        label         == RandomLabel(reward_lookup.name, prod_drop_chance)
        own_name      == IF product_data.name = "" THEN "Unknown Reward" ELSE product_data.name
    IN  IF ~reward_lookup.present THEN acc
        ELSE IF reward_type = "consumable"
        THEN ConsumableReward(acc, reward_id, reward_lookup, reward_amount, prod_drop_chance, label)
        ELSE IF reward_type = "set"
        THEN SetReward(acc, reward_lookup, reward_amount, prod_drop_chance, label)
        ELSE IF reward_type \in {"good", "special_goods", "guild_goods"}
        THEN GoodsReward(acc, reward_id, reward_amount, prod_drop_chance)
        ELSE IF reward_type = "unit"
        THEN IF component_key = "AllAge" THEN acc
             ELSE UnitReward(acc, reward_id, reward_amount, prod_drop_chance)
        ELSE IF reward_type = "chest"
        THEN ChestRandom(acc, reward_id, reward_lookup, prod_drop_chance)
        ELSE IF Contains(reward_id, "forgepoint_package")
        THEN ForgepointPackage(acc, reward_id, reward_amount, prod_drop_chance)
        ELSE [acc EXCEPT !.other_items_temp = @ \cup {RandomLabel(own_name, prod_drop_chance)}]

\* for product in products_in_random
RECURSIVE RandomGroup(_, _, _, _)
RandomGroup(acc, products_in_random, i, component_key) ==
    IF i > Len(products_in_random) \/ acc.raised THEN acc
    ELSE LET product          == products_in_random[i]
             product_data     == product.product
             prod_drop_chance == product.dropChance
             step ==
                IF prod_drop_chance = Zero THEN acc
                ELSE IF product_data.type = "resources"
                THEN AddResources(acc, product_data.resources, DOMAIN product_data.resources,
                                  FALSE, prod_drop_chance, TRUE)
                ELSE IF product_data.type = "genericReward"
                THEN GenericRewardRandom(acc, product_data, prod_drop_chance, component_key)
                ELSE acc
         IN  RandomGroup(step, products_in_random, i + 1, component_key)

\* the body of "for option in ...products": one option
ProductOption(acc, option, component_key) ==
    CASE option.type = "resources" ->
            AddResources(acc, option.resources, DOMAIN option.resources, FALSE, Num(1), FALSE)
      [] option.type = "unit" -> UnitPayload(acc, option)
      [] option.type = "guildResources" ->
            AddResources(acc, option.resources, DOMAIN option.resources, TRUE, Num(1), FALSE)
      [] option.type = "genericReward" -> GenericRewardDirect(acc, option)
      [] option.type = "random" -> RandomGroup(acc, option.products, 1, component_key)
      [] OTHER -> acc

\* for option in prod_component.get('options', [{}])[0].get('products', [])
RECURSIVE ProductOptions(_, _, _, _)
ProductOptions(acc, products, i, component_key) ==
    IF i > Len(products) \/ acc.raised THEN acc
    ELSE ProductOptions(ProductOption(acc, products[i], component_key), products, i + 1,
                        component_key)

\* the body of "for component_key in [era_key, 'AllAge']": a component that is no dict
\* raises AttributeError, 'options': [] raises IndexError
ProductionComponent(acc, components, component_key) ==
    LET component_data == ComponentGet(components, component_key)
        prod_component == component_data.production
    IN  IF acc.raised THEN acc
        ELSE IF ~component_data.isDict THEN [acc EXCEPT !.raised = TRUE]
        ELSE IF prod_component.kind = "absent" THEN acc
        ELSE IF prod_component.kind = "no_options" THEN [acc EXCEPT !.raised = TRUE]
        ELSE ProductOptions(acc, prod_component.products, 1, component_key)

\* for component_key in component_keys
RECURSIVE ProductionComponents(_, _, _, _)
ProductionComponents(acc, components, component_keys, i) ==
    IF i > Len(component_keys) THEN acc
    ELSE ProductionComponents(ProductionComponent(acc, components, component_keys[i]),
                              components, component_keys, i + 1)

\* the locals of _get_production_data after the loop over [era_key, 'AllAge']
ProductionLocals(components, era_key) ==
    ProductionComponents(InitialProduction, components, <<era_key, "AllAge">>, 1)

\* _get_production_data raises
get_production_data_raises(components, era_key) == ProductionLocals(components, era_key).raised

\* the eras in which special goods are reclassified
PastEras ==
    { "BronzeAge", "IronAge", "HighMiddleAge", "LateMiddleAge", "ColonialAge",
      "ProgressiveEra", "IndustrialAge", "ModernEra", "PostModernEra", "ContemporaryEra",
      "TomorrowEra", "FutureEra" }

\* sum(d.values())
SumUnits(d) ==
    FAdd(FAdd(FAdd(FAdd(d["Fast"], d["Heavy"]), d["Light"]), d["Ranged"]), d["Artillery"])

\* ", ".join([f"{k}: {v:.2f}" for k, v in d.items() if v > 0]), as the sequence of its parts
RECURSIVE UnitsTypeParts(_, _)
UnitsTypeParts(d, i) ==
    IF i > Len(UnitNames) THEN <<>>
    ELSE (IF FPos(d[UnitNames[i]]) THEN << <<UnitNames[i], Round2(d[UnitNames[i]])>> >> ELSE <<>>)
         \o UnitsTypeParts(d, i + 1)

\* "Aggregate temporary values" and "Round floats at the end": the numeric keys
AggregateProduction(acc, era_key) ==
    LET p0 == acc.production
        p1 == AddTo(p0, "guild_goods", acc.guild_goods_temp)
        p2 == AddTo(p1, "next_age_goods", acc.goods_next_temp)
        p3 == AddTo(p2, "prev_age_goods", acc.goods_prev_temp)
        p4 == IF era_key \in PastEras
              THEN [AddTo(p3, "next_age_goods", p3["special_goods"])
                       EXCEPT !["special_goods"] = Zero]
              ELSE AddTo(p3, "special_goods", acc.goods_special_temp)
        p5 == [p4 EXCEPT
                 !["rogues_units"]             = acc.rogues_temp,
                 !["fast_units"]               = acc.units["Fast"],
                 !["heavy_units"]              = acc.units["Heavy"],
                 !["ranged_units"]             = acc.units["Ranged"],
                 !["artillery_units"]          = acc.units["Artillery"],
                 !["light_units"]              = acc.units["Light"],
                 !["units_amount"]             = FAdd(SumUnits(acc.units), acc.rogues_temp),
                 !["next_age_fast_units"]      = acc.next_age_units["Fast"],
                 !["next_age_heavy_units"]     = acc.next_age_units["Heavy"],
                 !["next_age_ranged_units"]    = acc.next_age_units["Ranged"],
                 !["next_age_artillery_units"] = acc.next_age_units["Artillery"],
                 !["next_age_light_units"]     = acc.next_age_units["Light"],
                 !["next_age_units_amount"]    = SumUnits(acc.next_age_units)]
    IN  [k \in ProductionKeys |-> Round2(p5[k])]

\* the dict returned from the locals acc: the numeric keys as values, the two unit
\* descriptions and the label list (sorted(set(...)): a set)
ProductionDict(acc, era_key) ==
    [ values              |-> AggregateProduction(acc, era_key),
      units_type          |-> UnitsTypeParts(acc.units, 1) \o
                              (IF FPos(acc.rogues_temp)
                               THEN << <<"Rogues", Round2(acc.rogues_temp)>> >> ELSE <<>>),
      next_age_units_type |-> UnitsTypeParts(acc.next_age_units, 1),
      other_items         |-> acc.other_items_temp ]

\* _get_production_data, when it does not raise
get_production_data(components, era_key) ==
    ProductionDict(ProductionLocals(components, era_key), era_key)

(***************************************************************************)
(* _get_boost_data (src/data_loader.py).  The 'boosts' of a component is   *)
(* the sequence of its boost records [type, target, value]; an absent      *)
(* 'boosts' reads as the empty sequence.                                   *)
(***************************************************************************)
\* the keys of the boosts dict
BoostKeys ==
    { "Red Attack", "Red Defense", "Red GBG Attack", "Red GBG Defense",
      "Red GE Attack", "Red GE Defense", "Red QI Attack", "Red QI Defense",
      "Blue Attack", "Blue Defense", "Blue GBG Attack", "Blue GBG Defense",
      "Blue GE Attack", "Blue GE Defense", "Blue QI Attack", "Blue QI Defense",
      "Coin %", "QI Coin %", "QI Coin at start", "Supplies %",
      "QI Supplies %", "QI Supplies at start", "QI Goods at start",
      "QI Units at start", "QA per hour", "FP boost", "Guild Goods Production %",
      "Special Goods Production %", "Medal Boost", "Goods Boost" }

\* the four military columns of a targeted feature
MilitaryColumns(target) ==
    CASE target = "all" ->
            [ra |-> "Red Attack", rd |-> "Red Defense", ba |-> "Blue Attack", bd |-> "Blue Defense"]
      [] target = "battleground" ->
            [ra |-> "Red GBG Attack", rd |-> "Red GBG Defense",
             ba |-> "Blue GBG Attack", bd |-> "Blue GBG Defense"]
      [] target = "guild_expedition" ->
            [ra |-> "Red GE Attack", rd |-> "Red GE Defense",
             ba |-> "Blue GE Attack", bd |-> "Blue GE Defense"]
      [] target = "guild_raids" ->
            [ra |-> "Red QI Attack", rd |-> "Red QI Defense",
             ba |-> "Blue QI Attack", bd |-> "Blue QI Defense"]

\* boost_map.get((boost_type, target)), <<>> when the pair is no key
boost_map(boost_type, target) ==
    IF target \in {"all", "battleground", "guild_expedition", "guild_raids"}
       /\ boost_type \in {"att_boost_attacker", "def_boost_attacker", "att_boost_defender",
                          "def_boost_defender", "att_def_boost_attacker",
                          "att_def_boost_defender", "att_def_boost_attacker_defender"}
    THEN LET c == MilitaryColumns(target)
         IN  CASE boost_type = "att_boost_attacker"     -> <<c.ra>>
               [] boost_type = "def_boost_attacker"     -> <<c.rd>>
               [] boost_type = "att_boost_defender"     -> <<c.ba>>
               [] boost_type = "def_boost_defender"     -> <<c.bd>>
               [] boost_type = "att_def_boost_attacker" -> <<c.ra, c.rd>>
               [] boost_type = "att_def_boost_defender" -> <<c.ba, c.bd>>
               [] boost_type = "att_def_boost_attacker_defender" -> <<c.ra, c.rd, c.ba, c.bd>>
    ELSE IF target = "all"
    THEN CASE boost_type = "coin_production"                      -> <<"Coin %">>
           [] boost_type = "supply_production"                    -> <<"Supplies %">>
           [] boost_type = "guild_raids_coins_production"         -> <<"QI Coin %">>
           [] boost_type = "guild_raids_coins_start"              -> <<"QI Coin at start">>
           [] boost_type = "guild_raids_supplies_production"      -> <<"QI Supplies %">>
           [] boost_type = "guild_raids_supplies_start"           -> <<"QI Supplies at start">>
           [] boost_type = "guild_raids_goods_start"              -> <<"QI Goods at start">>
           [] boost_type = "guild_raids_units_start"              -> <<"QI Units at start">>
           [] boost_type = "guild_raids_action_points_collection" -> <<"QA per hour">>
           [] boost_type = "forge_points_production"              -> <<"FP boost">>
           [] boost_type = "guild_goods_production"               -> <<"Guild Goods Production %">>
           [] boost_type = "special_goods_production"             -> <<"Special Goods Production %">>
           [] boost_type = "medal_production"                     -> <<"Medal Boost">>
           [] boost_type = "goods_production"                     -> <<"Goods Boost">>
           [] OTHER                                               -> <<>>
    ELSE <<>>

\* mutant of AddBoost: only the first mapped field receives the value
AddBoost_first_only(boosts, final_keys, i, value) ==
    IF final_keys = <<>> THEN boosts ELSE AddTo(boosts, final_keys[1], value)

\* for final_key in final_keys: boosts[final_key] += value
RECURSIVE AddBoost(_, _, _, _)
AddBoost(boosts, final_keys, i, value) ==
    IF i > Len(final_keys) THEN boosts
    ELSE AddBoost(IF final_keys[i] \in DOMAIN boosts THEN AddTo(boosts, final_keys[i], value)
                  ELSE boosts,
                  final_keys, i + 1, value)

\* for boost in boost_comp.get('boosts', [])
RECURSIVE ComponentBoosts(_, _, _)
ComponentBoosts(boosts, boost_list, i) ==
    IF i > Len(boost_list) THEN boosts
    ELSE LET boost == boost_list[i]
         IN  ComponentBoosts(AddBoost(boosts, boost_map(boost.type, boost.target), 1,
                                      Num(boost.value)),
                             boost_list, i + 1)

\* _get_boost_data raises: .get on a component that is no dict
get_boost_data_raises(components, era_key) ==
    \/ ~ComponentGet(components, era_key).isDict
    \/ ~ComponentGet(components, "AllAge").isDict

\* _get_boost_data: for component_key in [era_key, 'AllAge'], then round(v, 2)
get_boost_data(components, era_key) ==
    LET zero    == [k \in BoostKeys |-> Zero]
        era     == ComponentBoosts(zero, ComponentGet(components, era_key).boosts, 1)
        all_age == ComponentBoosts(era, ComponentGet(components, "AllAge").boosts, 1)
    IN  [k \in BoostKeys |-> Round2(all_age[k])]

(***************************************************************************)
(* load_data (src/data_loader.py).  A building entry is a record           *)
(*   id          the value of 'id', None when the key is missing           *)
(*   name        the value of 'name'                                       *)
(*   components  [kind, keys, value]: kind "absent" (no 'components'),     *)
(*               "not_dict" (a list, say) or "dict"; keys is the order of  *)
(*               the dict's keys and value maps each key to its component  *)
(* The two asset files are read into the tables event_tags and             *)
(* event_building_tag_exceptions; reading raw_building_data and the assets *)
(* is taken to succeed.                                                    *)
(***************************************************************************)
\* event_tags.json, in the order of its keys
event_tags ==
    << <<"WIN", "Winter Event">>, <<"GBG", "Guild Battlegrounds">>,
       <<"Expedition", "Guild Expedition">> >>

\* event_building_tag_exceptions.json: the tag of a building id, <<>> when it is no key
event_building_tag_exceptions(building_id) ==
    IF building_id = "W_MultiAge_Special" THEN <<"Anniversary Event">> ELSE <<>>

\* the tags of event_tags that are substrings of a building id
IdTags(building_id) ==
    CASE building_id = "W_MultiAge_WIN22A"       -> {"WIN"}
      [] building_id = "W_MultiAge_GBG22B"       -> {"GBG"}
      [] building_id = "W_MultiAge_Expedition16" -> {"Expedition"}
      [] OTHER                                   -> {}

\* the numbers v of 18..30 with f"{v}" a substring of a building id
IdYears(building_id) ==
    CASE building_id = "W_MultiAge_WIN22A" -> {22}
      [] building_id = "W_MultiAge_GBG22B" -> {22}
      [] OTHER                             -> {}

\* building_id.startswith(('W_'))
StartsWithW(building_id) ==
    building_id \in { "W_MultiAge_WIN22A", "W_MultiAge_GBG22B", "W_MultiAge_Expedition16",
                      "W_MultiAge_Special", "W_MultiAge_Plain" }

\* for tag in event_tags.keys(): the tag found is <<label>> or <<label, year>>
RECURSIVE EventTagLoop(_, _, _)
EventTagLoop(building_id, i, building_event_tag) ==
    IF i > Len(event_tags) THEN building_event_tag
    ELSE LET tag   == event_tags[i][1]
             label == event_tags[i][2]
             years == (IF tag # "GBG" THEN 18..30 ELSE 23..30) \cap IdYears(building_id)
         IN  IF tag \in IdTags(building_id) /\ tag \notin {"COP", "Expedition"}
             THEN EventTagLoop(building_id, i + 1,
                               IF years = {} THEN building_event_tag
                               ELSE <<label, 2000 + (CHOOSE v \in years : \A w \in years : v <= w)>>)
             ELSE IF tag \in IdTags(building_id)
             THEN <<label>>
             ELSE EventTagLoop(building_id, i + 1, building_event_tag)

\* building_event_tag of an entry; <<>> stands for None
EventTag(building_id) ==
    IF event_building_tag_exceptions(building_id) # <<>>
    THEN event_building_tag_exceptions(building_id)
    ELSE LET found == EventTagLoop(building_id, 1, <<>>)
         IN  IF found = <<>> THEN <<building_id>> ELSE found

\* the common data of a building raises
common_data_raises(components) ==
    \/ calculate_size_data_raises(components)
    \/ check_limitations_raises(components)
    \/ get_ally_room_raises(components)

\* the try block of one era raises
era_data_raises(components, era_key) ==
    \/ get_pop_happiness_raises(components, era_key)
    \/ get_production_data_raises(components, era_key)
    \/ get_boost_data_raises(components, era_key)

\* building_dict, from the values computed for the building and the era
BuildingDictOf(building_entry, era_key, sd, limited_str, ally_room_str, ph, production_data, boost_data) ==
    [ id |-> building_entry.id, name |-> building_entry.name,
      Event |-> EventTag(building_entry.id), Era |-> era_key,
      x |-> sd.width, y |-> sd.height, size |-> sd.size_string,
      Road |-> sd.needs_road, Limited |-> limited_str,
      Population |-> ph.pop, Happiness |-> ph.happiness,
      units_type |-> production_data.units_type,
      next_age_units_type |-> production_data.next_age_units_type,
      other_items |-> production_data.other_items ]
    @@ ("Nbr of squares (Avg)" :> sd.total_squares)
    @@ ("Ally room" :> ally_room_str)
    @@ ("Other productions" :> production_data.other_items)
    @@ production_data.values
    @@ boost_data

\* the record appended for one era of a building
BuildingDict(building_entry, components, era_key) ==
    BuildingDictOf(building_entry, era_key, calculate_size_data(components),
                   check_limitations(components), get_ally_room(components),
                   get_pop_happiness(components, era_key),
                   get_production_data(components, era_key),
                   get_boost_data(components, era_key))

\* mutant of the test of line 527: no key is skipped
IsSharedKey_never(era_key) == FALSE

\* if era_key == 'AllAge': continue
IsSharedKey(era_key) == era_key = "AllAge"

\* the locals of load_data before the loop
InitialLoad ==
    [ building_data_list |-> <<>>, processed_count |-> 0, skipped_asset_id |-> 0,
      no_components |-> 0, error_count |-> 0, raised |-> FALSE ]

\* for era_key in components.keys()
RECURSIVE LoadEras(_, _, _, _, _)
LoadEras(ld, building_entry, components, keys, i) ==
    IF i > Len(keys) THEN ld
    ELSE LET era_key == keys[i]
             step ==
                IF IsSharedKey(era_key) THEN ld
                ELSE IF era_data_raises(components, era_key)
                THEN [ld EXCEPT !.error_count = @ + 1]
                ELSE [ld EXCEPT
                        !.building_data_list =
                            Append(@, BuildingDict(building_entry, components, era_key)),
                        !.processed_count = @ + 1]
         IN  LoadEras(step, building_entry, components, keys, i + 1)

\* the body of "for building_entry in raw_building_data"
LoadEntry(ld, building_entry) ==
    LET building_id == building_entry.id
        components  == building_entry.components
    IN  IF building_id = None THEN [ld EXCEPT !.raised = TRUE]
        ELSE IF ~StartsWithW(building_id) THEN [ld EXCEPT !.skipped_asset_id = @ + 1]
        ELSE IF components.kind # "dict" \/ components.keys = <<>>
        THEN [ld EXCEPT !.no_components = @ + 1]
        ELSE IF common_data_raises(components.value)
        THEN [ld EXCEPT !.error_count = @ + 1]
        ELSE LoadEras(ld, building_entry, components.value, components.keys, 1)

\* load_data: the loop, left by the first exception that no inner try catches
RECURSIVE load_data(_, _, _)
load_data(ld, raw, i) ==
    IF i > Len(raw) \/ ld.raised THEN ld
    ELSE load_data(LoadEntry(ld, raw[i]), raw, i + 1)

(***************************************************************************)
(* The footprint specification: an 'AllAge' component drawn from bounded   *)
(* sets, then one call of _calculate_size_data.                            *)
(***************************************************************************)
SizeComponents ==
    { [k \in {} |-> EmptyComponent] }
    \cup { [k \in {"AllAge"} |-> [EmptyComponent EXCEPT !.size_x = x, !.size_y = y,
                                                       !.street = road]] :
              x \in 0..MaxDim, y \in 0..MaxDim, road \in BOOLEAN }

SizeInit ==
    /\ LegacyIdle
    /\ PipelineIdle
    /\ SelectorIdle
    /\ FilterIdle
    /\ arg_components \in SizeComponents
    /\ arg_era_key = None
    /\ parse_pc = "ready"
    /\ size_data = None
    /\ pop_happiness = None
    /\ production = None
    /\ boost_fields = None
    /\ ScoreIdle
    /\ LoadIdle

CalculateSizeData ==
    /\ parse_pc = "ready"
    /\ ~calculate_size_data_raises(arg_components)
    /\ size_data' = calculate_size_data(arg_components)
    /\ parse_pc' = "done"
    /\ UNCHANGED <<arg_components, arg_era_key, pop_happiness, production, boost_fields>>
    /\ UNCHANGED <<scoreVars, loadVars, legacyVars, filterVars, pipelineVars, selectorVars>>

SizeNext == CalculateSizeData

SizeSpec == SizeInit /\ [][SizeNext]_vars

(***************************************************************************)
(* The population / happiness specification: an era component and the      *)
(* shared 'AllAge' component drawn from bounded sets, then one call of     *)
(* _get_pop_happiness.                                                     *)
(***************************************************************************)
PopValues == (-1)..MaxPop

PopComponent(pop, hap) == [EmptyComponent EXCEPT !.population = pop, !.provided = hap]

PopComponents ==
    { [k \in {"BronzeAge", "AllAge"} |->
          IF k = "AllAge" THEN PopComponent(ap, ah) ELSE PopComponent(ep, eh)] :
          ep \in PopValues, eh \in PopValues, ap \in PopValues, ah \in PopValues }
    \cup { [k \in {"BronzeAge"} |-> PopComponent(ep, eh)] :
              ep \in PopValues, eh \in PopValues }

PopInit ==
    /\ LegacyIdle
    /\ PipelineIdle
    /\ SelectorIdle
    /\ FilterIdle
    /\ arg_components \in PopComponents
    /\ arg_era_key = "BronzeAge"
    /\ parse_pc = "ready"
    /\ size_data = None
    /\ pop_happiness = None
    /\ production = None
    /\ boost_fields = None
    /\ ScoreIdle
    /\ LoadIdle

GetPopHappiness ==
    /\ parse_pc = "ready"
    /\ ~get_pop_happiness_raises(arg_components, arg_era_key)
    /\ pop_happiness' = get_pop_happiness(arg_components, arg_era_key)
    /\ parse_pc' = "done"
    /\ UNCHANGED <<arg_components, arg_era_key, size_data, production, boost_fields>>
    /\ UNCHANGED <<scoreVars, loadVars, legacyVars, filterVars, pipelineVars, selectorVars>>

PopNext == GetPopHappiness

PopSpec == PopInit /\ [][PopNext]_vars

(***************************************************************************)
(* The production specification: _get_production_data applied to a         *)
(* building whose product list sits in the component of its era or in      *)
(* 'AllAge'.                                                               *)
(***************************************************************************)
\* the longest product list
MaxProducts == 2

\* product options outside a random group
DirectOptions ==
    { ResourcesOption("random_special_good_up_to_age", 4),
      ResourcesOption("all_goods_of_next_age", 3),
      GuildResourcesOption("all_goods_of_age", 2),
      UnitOption("NextEraheavy_melee", 1),
      UnitOption("rogue", 1),
      GenericRewardOption("special_goods#random"),
      GenericRewardOption("good#NextEra"),
      GenericRewardOption("fragment#store_building"),
      GenericRewardOption("boost_crate"),
      GenericRewardOption("set#self_aid"),
      GenericRewardOption("unit#fast#CurrentEra"),
      GenericRewardOption("chest#next_age_unit"),
      GenericRewardOption("chest#random_unit"),
      GenericRewardOption("forgepoint_package#large"),
      GenericRewardOption("blueprint#random"),
      GenericRewardOption("chest#broken"),
      GenericRewardOption("unlisted"),
      Option("mystery") }

\* random groups of one product
RandomOptions ==
    { RandomOption(50, ResourcesOption("random_special_good_up_to_age", 4)),
      RandomOption(50, ResourcesOption("guild_goods", 2)),
      RandomOption(50, GenericRewardOption("special_goods#random")),
      RandomOption(25, GenericRewardOption("fragment#store_building")),
      RandomOption(25, GenericRewardOption("fragment#selection_kit")),
      RandomOption(50, GenericRewardOption("unit#fast#CurrentEra")),
      RandomOption(50, GenericRewardOption("chest#random_unit")),
      RandomOption(50, GenericRewardOption("chest#goods#NextEra")),
      RandomOption(50, GenericRewardOption("blueprint#random")),
      RandomOption(0, GenericRewardOption("good#NextEra")) }

ProductLists == SeqUpTo(DirectOptions \cup RandomOptions, MaxProducts)

\* a component with a production of these products
ProductionComponentOf(products) ==
    [EmptyComponent EXCEPT !.production = [kind |-> "options", products |-> products]]

\* the components of a building: the products under key, and the malformed shapes
ProdComponents(era_key) ==
    { [k \in {key} |-> ProductionComponentOf(products)] :
          key \in {era_key, "AllAge"}, products \in ProductLists }
    \cup { [k \in {era_key} |-> [EmptyComponent EXCEPT !.production.kind = "no_options"]],
           [k \in {era_key} |-> [EmptyComponent EXCEPT !.isDict = FALSE]] }

ProdInit ==
    /\ LegacyIdle
    /\ PipelineIdle
    /\ SelectorIdle
    /\ FilterIdle
    /\ arg_era_key \in {"BronzeAge", "SpaceAgeMars"}
    /\ arg_components \in ProdComponents(arg_era_key)
    /\ parse_pc = "ready"
    /\ size_data = None
    /\ pop_happiness = None
    /\ production = None
    /\ boost_fields = None
    /\ ScoreIdle
    /\ LoadIdle

\* BuildingAnalyzer._get_production_data(components, era_key, name)
GetProductionData ==
    /\ parse_pc = "ready"
    /\ IF get_production_data_raises(arg_components, arg_era_key)
       THEN parse_pc' = "raised" /\ production' = None
       ELSE parse_pc' = "done" /\ production' = get_production_data(arg_components, arg_era_key)
    /\ UNCHANGED <<arg_components, arg_era_key, size_data, pop_happiness, boost_fields>>
    /\ UNCHANGED <<scoreVars, loadVars, legacyVars, filterVars, pipelineVars, selectorVars>>

ProdNext == GetProductionData

ProdSpec == ProdInit /\ [][ProdNext]_vars

(***************************************************************************)
(* The loading specification: load_data applied to a list of building      *)
(* entries, well-formed and malformed.                                     *)
(***************************************************************************)
\* the longest list of building entries
MaxEntries == 2

\* the shared component of a 4x5 building that requires a road
AllAgeComponent == [EmptyComponent EXCEPT !.size_x = 4, !.size_y = 5, !.street = TRUE]

\* an era component with a population and one product
EraComponent(pop, option) ==
    [EmptyComponent EXCEPT !.population = pop,
                           !.production = [kind |-> "options", products |-> <<option>>],
                           !.boosts = <<[type |-> "att_def_boost_attacker", target |-> "all",
                                         value |-> 10]>>]

NotADict == [EmptyComponent EXCEPT !.isDict = FALSE]

\* building_entry.get('components') is a dict with these keys, in this order
ComponentsDict(keys, value) == [kind |-> "dict", keys |-> keys, value |-> value]

\* entries that load_data parses without an exception
WellFormedEntries ==
    { [ id |-> "W_MultiAge_WIN22A", name |-> "Winter Spire",
        components |-> ComponentsDict(<<"AllAge", "BronzeAge", "SpaceAgeMars">>,
            [k \in {"AllAge", "BronzeAge", "SpaceAgeMars"} |->
                IF k = "AllAge" THEN AllAgeComponent
                ELSE EraComponent(2, ResourcesOption("strategy_points", 5))]) ],
      [ id |-> "W_MultiAge_GBG22B", name |-> "Statue of Honor",
        components |-> ComponentsDict(<<"IronAge", "AllAge">>,
            [k \in {"AllAge", "IronAge"} |->
                IF k = "AllAge" THEN AllAgeComponent
                ELSE EraComponent(0, GenericRewardOption("blueprint#random"))]) ],
      [ id |-> "W_MultiAge_Expedition16", name |-> "Temple of Relics",
        components |-> ComponentsDict(<<"AllAge">>, [k \in {"AllAge"} |-> AllAgeComponent]) ],
      [ id |-> "A_MultiAge_Decoration", name |-> "Asset",
        components |-> ComponentsDict(<<"AllAge">>, [k \in {"AllAge"} |-> AllAgeComponent]) ] }

\* entries with one malformed part
MalformedEntries ==
    { [ id |-> None, name |-> "No id",
        components |-> ComponentsDict(<<"AllAge", "BronzeAge">>,
            [k \in {"AllAge", "BronzeAge"} |->
                IF k = "AllAge" THEN AllAgeComponent
                ELSE EraComponent(1, ResourcesOption("strategy_points", 5))]) ],
      [ id |-> "W_MultiAge_Plain", name |-> "No components",
        components |-> [kind |-> "absent", keys |-> <<>>, value |-> <<>>] ],
      [ id |-> "W_MultiAge_Plain", name |-> "Components list",
        components |-> [kind |-> "not_dict", keys |-> <<>>, value |-> <<>>] ],
      [ id |-> "W_MultiAge_Special", name |-> "Shared component broken",
        components |-> ComponentsDict(<<"AllAge", "BronzeAge">>,
            [k \in {"AllAge", "BronzeAge"} |->
                IF k = "AllAge" THEN NotADict
                ELSE EraComponent(1, ResourcesOption("strategy_points", 5))]) ],
      [ id |-> "W_MultiAge_Special", name |-> "No ally rooms",
        components |-> ComponentsDict(<<"AllAge", "BronzeAge">>,
            [k \in {"AllAge", "BronzeAge"} |->
                IF k = "AllAge" THEN [AllAgeComponent EXCEPT !.ally.kind = "no_rooms"]
                ELSE EraComponent(1, ResourcesOption("strategy_points", 5))]) ],
      [ id |-> "W_MultiAge_Plain", name |-> "One era broken",
        components |-> ComponentsDict(<<"AllAge", "BronzeAge", "IronAge">>,
            [k \in {"AllAge", "BronzeAge", "IronAge"} |->
                IF k = "AllAge" THEN AllAgeComponent
                ELSE IF k = "BronzeAge" THEN NotADict
                ELSE EraComponent(1, ResourcesOption("strategy_points", 5))]) ],
      [ id |-> "W_MultiAge_Plain", name |-> "No options",
        components |-> ComponentsDict(<<"AllAge", "BronzeAge">>,
            [k \in {"AllAge", "BronzeAge"} |->
                IF k = "AllAge" THEN AllAgeComponent
                ELSE [EmptyComponent EXCEPT !.production.kind = "no_options"]]) ] }

BuildingEntries == WellFormedEntries \cup MalformedEntries

LoadInit ==
    /\ LegacyIdle
    /\ PipelineIdle
    /\ SelectorIdle
    /\ FilterIdle
    /\ raw_building_data \in SeqUpTo(BuildingEntries, MaxEntries)
    /\ building_data_list = <<>>
    /\ load_counts = <<>>
    /\ load_pc = "ready"
    /\ ParseIdle
    /\ ScoreIdle

\* BuildingAnalyzer.load_data()
LoadData ==
    /\ load_pc = "ready"
    /\ LET ld == load_data(InitialLoad, raw_building_data, 1)
       IN  /\ building_data_list' = ld.building_data_list
           /\ load_counts' = [ processed_count |-> ld.processed_count,
                               skipped_asset_id |-> ld.skipped_asset_id,
                               no_components |-> ld.no_components,
                               error_count |-> ld.error_count ]
           /\ load_pc' = IF ld.raised THEN "raised" ELSE "done"
    /\ UNCHANGED raw_building_data
    /\ UNCHANGED <<parseVars, scoreVars, legacyVars, filterVars, pipelineVars, selectorVars>>

LoadNext == LoadData

LoadSpec == LoadInit /\ [][LoadNext]_vars

(***************************************************************************)
(* Properties of the footprint and of the population merge.                *)
(***************************************************************************)
ParseDone == parse_pc = "done"

\* width * height + min(width, height) / 2
WithRoadSurcharge(sd) == FAdd(Num(sd.width * sd.height), Rat(Min(sd.width, sd.height), 2))

\* C2 as stated: 'Nbr of squares (Avg)' >= x*y, and it equals
\* x*y + min(x,y)/2 if and only if Road is true, for all widths and heights >= 0.
C2_Original ==
    ParseDone =>
        /\ FGe(size_data.total_squares, Num(size_data.width * size_data.height))
        /\ (size_data.total_squares = WithRoadSurcharge(size_data)) <=> size_data.needs_road

\* C2 amended: 'Nbr of squares (Avg)' >= x*y; it equals x*y + min(x,y)/2 when
\* Road is true and x*y when Road is false, so it equals x*y + min(x,y)/2 if
\* and only if Road is true or min(x,y) = 0 (a zero side makes the surcharge 0).
C2_Footprint ==
    ParseDone =>
        /\ FGe(size_data.total_squares, Num(size_data.width * size_data.height))
        /\ size_data.needs_road => size_data.total_squares = WithRoadSurcharge(size_data)
        /\ ~size_data.needs_road =>
              size_data.total_squares = Num(size_data.width * size_data.height)
        /\ (size_data.total_squares = WithRoadSurcharge(size_data))
              <=> (size_data.needs_road \/ Min(size_data.width, size_data.height) = 0)

\* C2 witness: the 4x5 building that requires a road has 22 squares.
C2_Witness ==
    /\ ParseDone
    /\ size_data.width = 4 /\ size_data.height = 5 /\ size_data.needs_road
    /\ size_data.total_squares = Num(22)

\* C4 as stated: when the era component and 'AllAge' both give a non-zero
\* population (or happiness) the record carries the era component's value; the
\* shared value is used only when the era value is zero or absent.
C4_EraPrecedence ==
    ParseDone =>
        LET era == ComponentGet(arg_components, arg_era_key)
            all_age == ComponentGet(arg_components, "AllAge")
        IN  /\ era.population # 0 => pop_happiness.pop = era.population
            /\ era.population = 0 => pop_happiness.pop = all_age.population
            /\ era.provided # 0 => pop_happiness.happiness = era.provided
            /\ era.provided = 0 => pop_happiness.happiness = all_age.provided

(***************************************************************************)
(* Properties of the production extraction (ProdSpec).                     *)
(***************************************************************************)
\* C3 as stated: in a past era every special-goods yield found in the
\* production, the direct resource payloads (summed in production['special_goods'])
\* and the generic rewards (summed in goods_special_temp), is added to
\* next_age_goods, and the record's special_goods is 0.
C3_PastEraSpecialGoods ==
    (ParseDone /\ arg_era_key \in PastEras) =>
        LET acc == ProductionLocals(arg_components, arg_era_key)
        IN  /\ production.values["special_goods"] = Zero
            /\ production.values["next_age_goods"] =
                  Round2(FAdd(FAdd(acc.production["next_age_goods"], acc.goods_next_temp),
                              FAdd(acc.production["special_goods"], acc.goods_special_temp)))

\* the product options of all components of a building
AllProducts(components) ==
    UNION { {components[k].production.products[i] :
                 i \in DOMAIN components[k].production.products} : k \in DOMAIN components }

\* a generic reward that the lookup table knows and whose kind the parser has no branch for
Unrecognized(option) ==
    /\ option.type = "genericReward"
    /\ LookupRewards(option.reward_id).present
    /\ LookupRewards(option.reward_id).type \notin
          {"consumable", "set", "good", "special_goods", "guild_goods", "unit", "chest"}
    /\ ~Contains(option.reward_id, "forgepoint_package")

\* 'Other productions' has a label that names the reward of the option
Labelled(option) ==
    \E label \in production.other_items :
        label[1] \in {LookupRewards(option.reward_id).name, option.name, "Unknown Reward"}

\* C5 as stated: every unrecognized reward, in a direct generic-reward option as
\* well as inside a random group (with a drop chance that is not 0), has an
\* entry in the label list 'Other productions'.
C5_UnrecognizedLabelled ==
    ParseDone =>
        \A option \in AllProducts(arg_components) :
            /\ Unrecognized(option) => Labelled(option)
            /\ \A i \in DOMAIN option.products :
                   (option.products[i].dropChance # Zero
                        /\ Unrecognized(option.products[i].product))
                      => Labelled(option.products[i].product)

(***************************************************************************)
(* Properties of load_data (LoadSpec).                                     *)
(***************************************************************************)
LoadReturned == load_pc \in {"done", "raised"}

\* the (id, Era) pairs of building_data_list, in order
EmittedPairs ==
    [r \in DOMAIN building_data_list |->
        <<building_data_list[r].id, building_data_list[r].Era>>]

\* building_data_list has a record of this id and era
Emitted(building_id, era_key) ==
    \E r \in DOMAIN building_data_list :
        building_data_list[r].id = building_id /\ building_data_list[r].Era = era_key

\* the keys of an entry's components other than 'AllAge'
EraKeys(building_entry) ==
    SelectSeq(building_entry.components.keys, LAMBDA k : k # "AllAge")

\* C1 as stated: with a single malformed entry in the input, load_data does not
\* raise, and building_data_list has the records of every well-formed entry.
C1_MalformedEntrySkipped ==
    (LoadReturned
        /\ Cardinality({i \in DOMAIN raw_building_data :
                            raw_building_data[i] \in MalformedEntries}) <= 1)
    => /\ load_pc = "done"
       /\ \A i \in DOMAIN raw_building_data :
             LET building_entry == raw_building_data[i]
             IN  (building_entry \in WellFormedEntries /\ StartsWithW(building_entry.id))
                 => \A k \in DOMAIN EraKeys(building_entry) :
                        Emitted(building_entry.id, EraKeys(building_entry)[k])

\* a qualifying entry with a components dict
Qualifying(building_entry) ==
    /\ building_entry.id # None
    /\ StartsWithW(building_entry.id)
    /\ building_entry.components.kind = "dict"

\* the common data and the era block of the key parse without an exception
ParsedKey(building_entry, era_key) ==
    /\ ~common_data_raises(building_entry.components.value)
    /\ ~era_data_raises(building_entry.components.value, era_key)

\* the (id, key) pairs of the qualifying entries i..last, for every key other than
\* 'AllAge' or, with parsed_only, for those that parse
RECURSIVE PairsFrom(_, _, _, _)
PairsFrom(raw, i, last, parsed_only) ==
    IF i > last THEN <<>>
    ELSE LET building_entry == raw[i]
             keys == IF Qualifying(building_entry)
                     THEN SelectSeq(EraKeys(building_entry),
                                    LAMBDA k : parsed_only => ParsedKey(building_entry, k))
                     ELSE <<>>
         IN  [k \in DOMAIN keys |-> <<building_entry.id, keys[k]>>]
             \o PairsFrom(raw, i + 1, last, parsed_only)

\* the last entry that the loop of load_data gets through: the one before the
\* first entry without an 'id'
LastProcessed(raw) ==
    LET no_id == {i \in DOMAIN raw : raw[i].id = None}
    IN  IF no_id = {} THEN Len(raw)
        ELSE (CHOOSE i \in no_id : \A j \in no_id : i <= j) - 1

\* C6 as stated: exactly one record per key other than 'AllAge' of every
\* qualifying entry with a components dict, with that key as Era, and no record
\* whose Era is 'AllAge'.
C6_Original ==
    LoadReturned =>
        /\ EmittedPairs = PairsFrom(raw_building_data, 1, Len(raw_building_data), FALSE)
        /\ \A r \in DOMAIN building_data_list : building_data_list[r].Era # "AllAge"

\* C6 corrected: for every qualifying entry with a components dict that the loop
\* gets through, exactly one record per key other than 'AllAge' whose era block
\* parses without an exception, none when the common data of the entry raises,
\* each with that key as Era; and no record whose Era is 'AllAge'.
C6_OneRecordPerParsedEra ==
    LoadReturned =>
        /\ EmittedPairs =
              PairsFrom(raw_building_data, 1, LastProcessed(raw_building_data), TRUE)
        /\ \A r \in DOMAIN building_data_list : building_data_list[r].Era # "AllAge"

\* C6 witness: load_data returns with a building of three keys (two eras and
\* 'AllAge') parsed into two records, and a building with a broken era block and
\* a sound one parsed into one.
C6_Witness ==
    /\ load_pc = "done"
    /\ Len(raw_building_data) = 2
    /\ raw_building_data[1].name = "Winter Spire"
    /\ raw_building_data[2].name = "One era broken"
    /\ EmittedPairs = << <<"W_MultiAge_WIN22A", "BronzeAge">>,
                         <<"W_MultiAge_WIN22A", "SpaceAgeMars">>,
                         <<"W_MultiAge_Plain", "IronAge">> >>

(***************************************************************************)
(* src/config.py                                                           *)
(***************************************************************************)
\* mutant of ADDITIVE_METRICS: a boost percentage and a non-additive weightable
\* column are in the list
ADDITIVE_METRICS_with_non_additive ==
    << "forge_points", "medals", "FP boost", "Population" >>

ADDITIVE_METRICS ==
    << "coins", "supplies", "medals", "forge_points", "forgepoint_package", "goods",
       "next_age_goods", "prev_age_goods", "special_goods", "guild_goods",
       "Red Attack", "Red Defense", "Blue Attack", "Blue Defense",
       "Red GBG Attack", "Red GBG Defense", "Blue GBG Attack", "Blue GBG Defense",
       "Red GE Attack", "Red GE Defense", "Blue GE Attack", "Blue GE Defense",
       "Red QI Attack", "Red QI Defense", "Blue QI Attack", "Blue QI Defense",
       "QI Coin at start", "QI Supplies at start", "QI Goods at start",
       "QI Units at start", "QA per hour" >>

\* the keys of BOOST_TO_BASE_MAPPING, in the order the dict is written
BOOST_TO_BASE_MAPPING ==
    << "FP boost", "Goods Boost", "Guild Goods Production %", "Special Goods Production %" >>

SQUARES == "Nbr of squares (Avg)"

(***************************************************************************)
(* apply_boosts_to_base_metrics (src/calculations.py)                      *)
(***************************************************************************)
\* 1 + pct / 100
BoostMultiplier(pct) == FAdd(Num(1), FDiv(pct, Num(100)))

\* combined_boosts[...] = user_boosts.get(user_key, 0) + building_row.get(row_key, 0)
CombinedBoost(building_row, boosts, user_key, row_key) ==
    FAdd(Get(boosts, user_key, Zero), Get(building_row, row_key, Zero))

\* "if combined > 0: for col in cols: if col in enhanced_row:
\*      enhanced_row[col] = original_base_values[col] * (1 + combined / 100)"
ApplyCombinedBoost(enhanced_row, building_row, combined, cols) ==
    IF FPos(combined)
    THEN [c \in DOMAIN enhanced_row |->
            IF c \in cols
            THEN FMul(Get(building_row, c, Zero), BoostMultiplier(combined))
            ELSE enhanced_row[c]]
    ELSE enhanced_row

\* STEP 1: the four combined boosts, applied to the original base values
ApplyCombinedBoosts(building_row, boosts) ==
    LET e1 == ApplyCombinedBoost(building_row, building_row,
                  CombinedBoost(building_row, boosts, "current_fp_boost", "FP boost"),
                  {"forge_points"})
        e2 == ApplyCombinedBoost(e1, building_row,
                  CombinedBoost(building_row, boosts, "current_goods_boost", "Goods Boost"),
                  {"goods", "prev_age_goods", "next_age_goods"})
        e3 == ApplyCombinedBoost(e2, building_row,
                  CombinedBoost(building_row, boosts, "current_guild_goods_boost",
                                "Guild Goods Production %"),
                  {"guild_goods"})
    IN  ApplyCombinedBoost(e3, building_row,
                  CombinedBoost(building_row, boosts, "current_special_goods_boost",
                                "Special Goods Production %"),
                  {"special_goods"})

\* mutant of TrueBase: the context production is taken as the true base without
\* dividing the current city boost out
TrueBase_not_deboosted(context, boosts, context_key, boost_key) ==
    Get(context, context_key, Zero)

\* STEP 2: true_base_context[context_key]
TrueBase(context, boosts, context_key, boost_key) ==
    IF boost_key \in DOMAIN boosts /\ FPos(boosts[boost_key])
    THEN FDiv(Get(context, context_key, Zero), BoostMultiplier(boosts[boost_key]))
    ELSE Get(context, context_key, Zero)

\* mutant of AddBoostEquivalent: the boost equivalent replaces the building's own
\* boosted production instead of being added to it
AddBoostEquivalent_overwrite(enhanced_row, base_metric, boost_percentage, true_base) ==
    Put(enhanced_row, base_metric, FDiv(FMul(boost_percentage, true_base), Num(100)))

\* "boost_equivalent = boost_percentage * true_base / 100
\*  enhanced_row[base_metric] = enhanced_row.get(base_metric, 0) + boost_equivalent"
AddBoostEquivalent(enhanced_row, base_metric, boost_percentage, true_base) ==
    Put(enhanced_row, base_metric,
        FAdd(Get(enhanced_row, base_metric, Zero),
             FDiv(FMul(boost_percentage, true_base), Num(100))))

\* "if boost_metric in building_row and building_row[boost_metric] > 0"
GrantsBoost(building_row, boost_metric) ==
    boost_metric \in DOMAIN building_row /\ FPos(building_row[boost_metric])

\* the Goods Boost branch: one goods column, only when its true base is > 0
AddGoodsEquivalent(enhanced_row, building_row, base_metric, true_base) ==
    IF FPos(true_base)
    THEN AddBoostEquivalent(enhanced_row, base_metric, building_row["Goods Boost"], true_base)
    ELSE enhanced_row

\* STEP 3: one iteration of "for boost_metric, ... in BOOST_TO_BASE_MAPPING.items()"
ApplyBuildingBoost(enhanced_row, building_row, context, boosts, boost_metric) ==
    IF ~GrantsBoost(building_row, boost_metric) THEN enhanced_row
    ELSE CASE boost_metric = "FP boost" ->
                AddBoostEquivalent(enhanced_row, "forge_points", building_row[boost_metric],
                    TrueBase(context, boosts, "fp_daily_production", "current_fp_boost"))
           [] boost_metric = "Goods Boost" ->
                LET g1 == AddGoodsEquivalent(enhanced_row, building_row, "goods",
                              TrueBase(context, boosts, "goods_current_production",
                                       "current_goods_boost"))
                    g2 == AddGoodsEquivalent(g1, building_row, "prev_age_goods",
                              TrueBase(context, boosts, "goods_previous_production",
                                       "current_goods_boost"))
                IN  AddGoodsEquivalent(g2, building_row, "next_age_goods",
                              TrueBase(context, boosts, "goods_next_production",
                                       "current_goods_boost"))
           [] boost_metric = "Guild Goods Production %" ->
                AddBoostEquivalent(enhanced_row, "guild_goods", building_row[boost_metric],
                    TrueBase(context, boosts, "guild_goods_production",
                             "current_guild_goods_boost"))
           [] boost_metric = "Special Goods Production %" ->
                AddBoostEquivalent(enhanced_row, "special_goods", building_row[boost_metric],
                    TrueBase(context, boosts, "special_goods_production",
                             "current_special_goods_boost"))
           [] OTHER -> enhanced_row

RECURSIVE ApplyBuildingBoosts(_, _, _, _, _)
ApplyBuildingBoosts(enhanced_row, building_row, context, boosts, i) ==
    IF i > Len(BOOST_TO_BASE_MAPPING) THEN enhanced_row
    ELSE ApplyBuildingBoosts(
             ApplyBuildingBoost(enhanced_row, building_row, context, boosts,
                                BOOST_TO_BASE_MAPPING[i]),
             building_row, context, boosts, i + 1)

apply_boosts_to_base_metrics(building_row, context, boosts) ==
    ApplyBuildingBoosts(ApplyCombinedBoosts(building_row, boosts),
                        building_row, context, boosts, 1)

(***************************************************************************)
(* calculate_direct_weighted_efficiency (src/calculations.py)              *)
(***************************************************************************)
\* mutant of Contributes: the pd.notna test is missing
Contributes_no_notna(enhanced_row, weights, metric) ==
    /\ metric \in DOMAIN enhanced_row
    /\ metric \in DOMAIN weights
    /\ FPos(weights[metric])

\* "if metric in enhanced_row and metric in user_weights:
\*      weight = user_weights.get(metric, 0)
\*      if weight > 0 and pd.notna(enhanced_row[metric]):"
Contributes(enhanced_row, weights, metric) ==
    /\ metric \in DOMAIN enhanced_row
    /\ metric \in DOMAIN weights
    /\ FPos(weights[metric])
    /\ notna(enhanced_row[metric])

\* "for metric in ADDITIVE_METRICS: ... total_score += enhanced_row[metric] * weight"
RECURSIVE WeightedSum(_, _, _, _)
WeightedSum(enhanced_row, weights, i, total_score) ==
    IF i > Len(ADDITIVE_METRICS) THEN total_score
    ELSE WeightedSum(enhanced_row, weights, i + 1,
             IF Contributes(enhanced_row, weights, ADDITIVE_METRICS[i])
             THEN FAdd(total_score,
                       FMul(enhanced_row[ADDITIVE_METRICS[i]], weights[ADDITIVE_METRICS[i]]))
             ELSE total_score)

\* mutant of Efficiency: a footprint that is not > 0 is replaced by the divisor 1
Efficiency_safe_divisor(building_row, total_score) ==
    LET building_size == Get(building_row, SQUARES, Num(1))
    IN  IF FPos(building_size) THEN Round1(FDiv(total_score, building_size))
        ELSE Round1(total_score)

\* "building_size = building_row.get('Nbr of squares (Avg)', 1)
\*  if building_size > 0: round(total_score / building_size, 1) else: 0.0"
Efficiency(building_row, total_score) ==
    LET building_size == Get(building_row, SQUARES, Num(1))
    IN  IF FPos(building_size) THEN Round1(FDiv(total_score, building_size)) ELSE Zero

\* mutant of ScoreRow: the efficiency is computed from the rounded total score
ScoreRow_rounded_total(building_row, weights, context, boosts) ==
    LET enhanced_row == apply_boosts_to_base_metrics(building_row, context, boosts)
        total_score  == WeightedSum(enhanced_row, weights, 1, Zero)
    IN  [enhanced_row |-> enhanced_row,
         total_score  |-> total_score,
         score        |-> Round1(total_score),
         efficiency   |-> Efficiency(building_row, Round1(total_score))]

\* the locals of one iteration of "for idx, building_row in df.iterrows()"
ScoreRow(building_row, weights, context, boosts) ==
    LET enhanced_row == apply_boosts_to_base_metrics(building_row, context, boosts)
        total_score  == WeightedSum(enhanced_row, weights, 1, Zero)
    IN  [enhanced_row |-> enhanced_row,
         total_score  |-> total_score,
         score        |-> Round1(total_score),
         efficiency   |-> Efficiency(building_row, total_score)]

\* mutant of any_weight_set: ">= 0" for "> 0"
any_weight_set_ge(weights) == \E k \in DOMAIN weights : ~weights[k].nan /\ weights[k].n >= 0

\* "any_weight_set = any(w > 0 for w in user_weights.values())"
any_weight_set(weights) == \E k \in DOMAIN weights : FPos(weights[k])

\* "df['Total Score'] = 0.0; df['Weighted Efficiency'] = 0.0"
InitScoreColumns(table) ==
    [i \in DOMAIN table |->
        Put(Put(table[i], "Total Score", Zero), "Weighted Efficiency", Zero)]

\* a cell that holds a text instead of a number: comparing it with a number
\* or multiplying it by a float raises TypeError
Text == [nan |-> FALSE, n |-> 0, d |-> 0]

IsText(cell) == cell.d = 0

\* the body of the row loop raises: a weighted additive metric holds a text
\* ("enhanced_row[metric] * weight"), or the footprint does ("building_size >
\* 0").  The tables of the model hold texts only in columns that
\* apply_boosts_to_base_metrics does not read.
ScoreRowRaises(building_row, weights) ==
    \/ \E i \in DOMAIN ADDITIVE_METRICS :
           /\ ADDITIVE_METRICS[i] \in DOMAIN building_row
           /\ ADDITIVE_METRICS[i] \in DOMAIN weights
           /\ FPos(weights[ADDITIVE_METRICS[i]])
           /\ IsText(building_row[ADDITIVE_METRICS[i]])
    \/ IsText(Get(building_row, SQUARES, Num(1)))

\* mutant of ExceptScoring: the table is returned as the loop left it
ExceptScoring_keep_partial(partial) == partial

\* "except Exception as e: df['Total Score'] = 0.0; df['Weighted Efficiency'] = 0.0"
ExceptScoring(partial) == InitScoreColumns(partial)

\* the row loop up to the first row that raises, then the except block: the
\* rows before it have their scores written with df.at
FirstRaising(zeroed, weights) ==
    CHOOSE i \in DOMAIN zeroed :
        /\ ScoreRowRaises(zeroed[i], weights)
        /\ \A j \in 1..(i - 1) : ~ScoreRowRaises(zeroed[j], weights)

\* the table once the rows before the raising one have their two scores
WithScores(zeroed, locals) ==
    [i \in DOMAIN zeroed |->
        IF i \in DOMAIN locals
        THEN Put(Put(zeroed[i], "Total Score", locals[i].score),
                 "Weighted Efficiency", locals[i].efficiency)
        ELSE zeroed[i]]

HandledAfter(zeroed, locals) == [df |-> ExceptScoring(WithScores(zeroed, locals)), locals |-> locals]

ScoringFailed(zeroed, weights, context, boosts) ==
    HandledAfter(zeroed, [i \in 1..(FirstRaising(zeroed, weights) - 1) |->
                            ScoreRow(zeroed[i], weights, context, boosts)])

\* mutant of calculate_direct_weighted_efficiency: the enhanced values are written
\* back into the rows of the table
calculate_direct_weighted_efficiency_in_place(table, weights, context, boosts) ==
    IF table = <<>> THEN [df |-> table, locals |-> <<>>]
    ELSE LET zeroed == InitScoreColumns(table)
         IN  IF ~any_weight_set(weights) THEN [df |-> zeroed, locals |-> <<>>]
             ELSE IF \E i \in DOMAIN zeroed : ScoreRowRaises(zeroed[i], weights)
             THEN ScoringFailed(zeroed, weights, context, boosts)
             ELSE LET locals == [i \in DOMAIN zeroed |->
                                    ScoreRow(zeroed[i], weights, context, boosts)]
                  IN  [df |-> [i \in DOMAIN zeroed |->
                                  Put(Put(locals[i].enhanced_row, "Total Score", locals[i].score),
                                      "Weighted Efficiency", locals[i].efficiency)],
                       locals |-> locals]

\* the value returned (the table is also changed in place), and the locals of
\* every iteration of the row loop
calculate_direct_weighted_efficiency(table, weights, context, boosts) ==
    IF table = <<>> THEN [df |-> table, locals |-> <<>>]
    ELSE LET zeroed == InitScoreColumns(table)
         IN  IF ~any_weight_set(weights) THEN [df |-> zeroed, locals |-> <<>>]
             ELSE IF \E i \in DOMAIN zeroed : ScoreRowRaises(zeroed[i], weights)
             THEN ScoringFailed(zeroed, weights, context, boosts)
             ELSE LET locals == [i \in DOMAIN zeroed |->
                                    ScoreRow(zeroed[i], weights, context, boosts)]
                  IN  [df |-> [i \in DOMAIN zeroed |->
                                  Put(Put(zeroed[i], "Total Score", locals[i].score),
                                      "Weighted Efficiency", locals[i].efficiency)],
                       locals |-> locals]

(***************************************************************************)
(* The scoring specification: a table, weights, context and boosts drawn   *)
(* from bounded sets, then one call of the scoring function.               *)
(***************************************************************************)
\* the numeric columns of a parsed row that the scoring reads
ScoreRowOf(fp, fp_boost, squares) ==
    [c \in {"forge_points", "FP boost", "medals", "Population", SQUARES} |->
        CASE c = "forge_points" -> fp
          [] c = "FP boost"     -> fp_boost
          [] c = "medals"       -> Num(3)
          [] c = "Population"   -> Num(7)
          [] OTHER              -> squares]

ScoreRows ==
    { ScoreRowOf(fp, b, s) : fp \in {NaN, Num(50)}, b \in {Zero, Num(5)},
                             s \in {Zero, Num(22)} }

WeightValues == {Num(-1), Zero, Num(2)}

WeightMaps ==
    { [k \in {} |-> Zero] }
    \cup { [k \in {"forge_points", "medals"} |-> IF k = "forge_points" THEN a ELSE b] :
              a \in WeightValues, b \in WeightValues }
    \cup { [k \in {"forge_points", "medals", "Population"} |->
              CASE k = "forge_points" -> a [] k = "medals" -> b [] OTHER -> Num(2)] :
              a \in WeightValues, b \in WeightValues }

ContextMaps == { [k \in {"fp_daily_production"} |-> v] : v \in {Zero, Num(100)} }

BoostMaps == { [k \in {"current_fp_boost"} |-> v] : v \in {Zero, Num(10)} }

ScoreInit ==
    /\ LegacyIdle
    /\ PipelineIdle
    /\ SelectorIdle
    /\ FilterIdle
    /\ df \in SeqUpTo(ScoreRows, MaxRows)
    /\ user_weights \in WeightMaps
    /\ user_context \in ContextMaps
    /\ user_boosts \in BoostMaps
    /\ score_pc = "ready"
    /\ row_locals = <<>>
    /\ ParseIdle
    /\ LoadIdle

CalculateDirectWeightedEfficiency ==
    /\ score_pc = "ready"
    /\ \E r \in {calculate_direct_weighted_efficiency(df, user_weights, user_context,
                                                       user_boosts)} :
           /\ df' = r.df
           /\ row_locals' = r.locals
    /\ score_pc' = "returned"
    /\ UNCHANGED <<user_weights, user_context, user_boosts>>
    /\ UNCHANGED <<parseVars, loadVars, legacyVars, filterVars, pipelineVars, selectorVars>>

ScoreNext == CalculateDirectWeightedEfficiency

ScoreSpec == ScoreInit /\ [][ScoreNext]_vars

(***************************************************************************)
(* Properties of the scoring function.                                      *)
(***************************************************************************)
Returned == score_pc = "returned"

AdditiveSet == {ADDITIVE_METRICS[i] : i \in DOMAIN ADDITIVE_METRICS}

\* the sum of weight * value over a set of metrics
RECURSIVE SumProducts(_, _, _)
SumProducts(S, row, weights) ==
    IF S = {} THEN Zero
    ELSE LET m == CHOOSE x \in S : TRUE
         IN  FAdd(FMul(row[m], weights[m]), SumProducts(S \ {m}, row, weights))

\* the additive metrics with a weight and a non-missing value on the row
Weighted(row, weights) ==
    {m \in AdditiveSet \cap DOMAIN row \cap DOMAIN weights : notna(row[m])}

\* the boost-enhanced row of table row i
EnhancedRow(i) == apply_boosts_to_base_metrics(df[i], user_context, user_boosts)

AllWeightsZero == \A k \in DOMAIN user_weights : user_weights[k] = Zero

\* C7: when every user weight is 0, or the weight map is empty, the call leaves
\* Total Score = 0 and Weighted Efficiency = 0 on every row and evaluates no row,
\* whatever the context and the boosts are.
C7_ZeroWeightsShortCircuit ==
    (Returned /\ AllWeightsZero) =>
        /\ row_locals = <<>>
        /\ \A i \in DOMAIN df :
              /\ df[i]["Total Score"] = Zero
              /\ df[i]["Weighted Efficiency"] = Zero

\* C7 witness: an all-zero (non-empty) weight map, a non-zero context and city
\* boost, and a table holding a producing, boost-granting row.
C7_Witness ==
    /\ Returned /\ AllWeightsZero /\ DOMAIN user_weights # {}
    /\ user_context["fp_daily_production"] = Num(100)
    /\ user_boosts["current_fp_boost"] = Num(10)
    /\ \E i \in DOMAIN df :
          /\ df[i]["forge_points"] = Num(50)
          /\ df[i]["FP boost"] = Num(5)
          /\ df[i]["Total Score"] = Zero

\* C8 as stated: the total score of a row is the sum of weight * value over the
\* additive metrics with a NON-ZERO weight (positive or negative) and a
\* non-missing boost-enhanced value (the stored column being that sum rounded
\* to one decimal).
C8_Original ==
    Returned =>
        \A i \in DOMAIN df :
            LET claimed == SumProducts({m \in Weighted(EnhancedRow(i), user_weights) :
                                           user_weights[m] # Zero},
                                       EnhancedRow(i), user_weights)
            IN  /\ df[i]["Total Score"] = Round1(claimed)
                /\ row_locals # <<>> => row_locals[i].total_score = claimed

\* C8 amended: the total score of a row is the sum of weight * value over the
\* additive metrics with a POSITIVE weight and a non-missing boost-enhanced
\* value; a negative weight contributes nothing.
C8_PositiveWeightedSum ==
    Returned =>
        \A i \in DOMAIN df :
            LET claimed == SumProducts({m \in Weighted(EnhancedRow(i), user_weights) :
                                           FPos(user_weights[m])},
                                       EnhancedRow(i), user_weights)
            IN  /\ df[i]["Total Score"] = Round1(claimed)
                /\ row_locals # <<>> => row_locals[i].total_score = claimed

\* C8 witness: a row scored with a positive and a negative weight at once, two
\* additive metrics and a non-additive one weighted.
C8_Witness ==
    /\ Returned /\ row_locals # <<>>
    /\ DOMAIN user_weights = {"forge_points", "medals", "Population"}
    /\ user_weights["forge_points"] = Num(2)
    /\ user_weights["medals"] = Num(-1)
    /\ \E i \in DOMAIN df :
          /\ df[i]["forge_points"] = Num(50)
          /\ row_locals[i].total_score # Zero

\* E2E scenario C: weight forge_points = 2 (no other weight set), context
\* fp_daily_production = 100, city boost current_fp_boost = 10, and row i with
\* 'FP boost' = 5 and base forge_points = 50.
ScenarioC(i) ==
    /\ Returned
    /\ DOMAIN user_weights = {"forge_points", "medals"}
    /\ user_weights["forge_points"] = Num(2)
    /\ user_weights["medals"] = Zero
    /\ user_context["fp_daily_production"] = Num(100)
    /\ user_boosts["current_fp_boost"] = Num(10)
    /\ i \in DOMAIN df
    /\ df[i]["forge_points"] = Num(50)
    /\ df[i]["FP boost"] = Num(5)

\* C9 as stated: in scenario C the combined boost is 15%, the enhanced
\* forge_points is 57.5 and the forge_points contribution to the total is 115.
C9_Original ==
    \A i \in DOMAIN df :
        ScenarioC(i) =>
            /\ CombinedBoost(df[i], user_boosts, "current_fp_boost", "FP boost") = Num(15)
            /\ row_locals[i].enhanced_row["forge_points"] = Rat(115, 2)
            /\ row_locals[i].total_score = Num(115)

\* C9 amended: in scenario C the combined boost is 15% and the multiplicative
\* step gives 50 * 1.15 = 57.5; the building's own FP boost then adds
\* 5 * (100 / 1.1) / 100 = 50/11, so the enhanced forge_points is 1365/22
\* (about 62.05), its contribution 2 * 1365/22 = 1365/11 (about 124.09) and the
\* stored Total Score 124.1.
C9_ScenarioC ==
    \A i \in DOMAIN df :
        ScenarioC(i) =>
            /\ CombinedBoost(df[i], user_boosts, "current_fp_boost", "FP boost") = Num(15)
            /\ ApplyCombinedBoosts(df[i], user_boosts)["forge_points"] = Rat(115, 2)
            /\ row_locals[i].enhanced_row["forge_points"] = Rat(1365, 22)
            /\ row_locals[i].total_score = Rat(1365, 11)
            /\ df[i]["Total Score"] = Rat(1241, 10)

\* C9 witness: scenario C has been scored.
C9_Witness == \E i \in DOMAIN df : ScenarioC(i) /\ row_locals # <<>>

\* max(squares, 1)
SafeDivisor(row) ==
    LET s == Get(row, SQUARES, Num(1)) IN IF s.n >= s.d THEN s ELSE Num(1)

\* the unrounded total score of row i (0 when the row loop was skipped)
TotalOf(i) == IF row_locals = <<>> THEN Zero ELSE row_locals[i].total_score

\* C10 as stated: Weighted Efficiency is the total score divided by
\* max('Nbr of squares (Avg)', 1) (to the one decimal the column keeps), so a
\* row of footprint 0 gets its total score as efficiency.
C10_Original ==
    Returned =>
        \A i \in DOMAIN df :
            df[i]["Weighted Efficiency"] = Round1(FDiv(TotalOf(i), SafeDivisor(df[i])))

\* C10 amended: Weighted Efficiency is the total score divided by
\* 'Nbr of squares (Avg)', rounded to one decimal, when the footprint is > 0;
\* a row whose footprint is 0 gets Weighted Efficiency 0 (it is not divided by
\* a safe divisor of 1).
C10_EfficiencyPerSquare ==
    Returned =>
        \A i \in DOMAIN df :
            df[i]["Weighted Efficiency"] =
                IF FPos(df[i][SQUARES])
                THEN Round1(FDiv(TotalOf(i), df[i][SQUARES]))
                ELSE Zero

\* C10 witness: a scored row of footprint 0 with a non-zero total score, next
\* to a scored row of positive footprint and non-zero efficiency.
C10_Witness ==
    /\ Returned /\ row_locals # <<>>
    /\ \E i \in DOMAIN df :
          /\ df[i][SQUARES] = Zero
          /\ row_locals[i].total_score # Zero
          /\ df[i]["Weighted Efficiency"] = Zero
    /\ \E i \in DOMAIN df :
          /\ FPos(df[i][SQUARES])
          /\ df[i]["Weighted Efficiency"] # Zero

(***************************************************************************)
(* The rounding specification: the scoring function on tables whose total  *)
(* scores have more than one decimal and whose footprints are small, so     *)
(* that the order of rounding and division shows in the result.            *)
(***************************************************************************)
RoundRows ==
    { ScoreRowOf(Num(fp), Num(b), s) :
          fp \in {30, 50}, b \in {0, 5}, s \in {Zero, Rat(5, 2), Num(22)} }

RoundWeightMaps == { [k \in {"forge_points"} |-> Num(w)] : w \in {1, 2} }

RoundContextMaps == { [k \in {"fp_daily_production"} |-> Num(v)] : v \in {100, 150} }

RoundInit ==
    /\ LegacyIdle
    /\ PipelineIdle
    /\ SelectorIdle
    /\ FilterIdle
    /\ df \in SeqUpTo(RoundRows, MaxRows)
    /\ user_weights \in RoundWeightMaps
    /\ user_context \in RoundContextMaps
    /\ user_boosts = [k \in {"current_fp_boost"} |-> Num(10)]
    /\ score_pc = "ready"
    /\ row_locals = <<>>
    /\ ParseIdle
    /\ LoadIdle

RoundSpec == RoundInit /\ [][ScoreNext]_vars

\* the total score of row i as the weighted sum over the additive metrics with a
\* positive weight, before any rounding
UnroundedTotal(i) ==
    SumProducts({m \in Weighted(EnhancedRow(i), user_weights) : FPos(user_weights[m])},
                EnhancedRow(i), user_weights)

\* C11: for every row, Total Score is the total score rounded to one decimal,
\* and Weighted Efficiency is the UNROUNDED total score divided by the footprint,
\* rounded to one decimal, when the footprint is > 0, and 0 otherwise.
C11_RoundedColumns ==
    Returned =>
        \A i \in DOMAIN df :
            /\ df[i]["Total Score"] = Round1(UnroundedTotal(i))
            /\ df[i]["Weighted Efficiency"] =
                  IF FPos(df[i][SQUARES])
                  THEN Round1(FDiv(UnroundedTotal(i), df[i][SQUARES]))
                  ELSE Zero

\* C11 witness: a scored row whose total score has more than one decimal and
\* whose efficiency differs from the one the rounded total would give, next to a
\* scored row of footprint 0.
C11_Witness ==
    /\ Returned
    /\ \E i \in DOMAIN df :
          /\ FPos(df[i][SQUARES])
          /\ df[i]["Total Score"] # UnroundedTotal(i)
          /\ df[i]["Weighted Efficiency"] #
                Round1(FDiv(df[i]["Total Score"], df[i][SQUARES]))
    /\ \E i \in DOMAIN df :
          /\ df[i][SQUARES] = Zero
          /\ df[i]["Total Score"] # Zero
          /\ df[i]["Weighted Efficiency"] = Zero

(***************************************************************************)
(* The rescoring specification: the scoring function is called a second    *)
(* time, on the table the first call returned, with the same weights,      *)
(* context and boosts.                                                     *)
(***************************************************************************)
Rescore ==
    /\ score_pc = "returned"
    /\ \E result \in {calculate_direct_weighted_efficiency(df, user_weights,
                                                            user_context, user_boosts)} :
           /\ df' = result.df
           /\ row_locals' = result.locals
    /\ score_pc' = "rescored"
    /\ UNCHANGED <<user_weights, user_context, user_boosts>>
    /\ UNCHANGED <<parseVars, loadVars, legacyVars, filterVars, pipelineVars, selectorVars>>

RescoreNext == CalculateDirectWeightedEfficiency \/ Rescore

RescoreSpec == RoundInit /\ [][RescoreNext]_vars

\* C12: scoring an already scored table again with the same weights, context
\* and boosts leaves Total Score and Weighted Efficiency of every row as they
\* were (the base values of the rows are not changed by a scoring pass, so the
\* boosts are applied to them again, not to enhanced values).
C12_RescoreSameScores ==
    [][Rescore =>
          /\ DOMAIN df' = DOMAIN df
          /\ \A i \in DOMAIN df :
                /\ df'[i]["Total Score"] = df[i]["Total Score"]
                /\ df'[i]["Weighted Efficiency"] = df[i]["Weighted Efficiency"]
                /\ df'[i]["forge_points"] = df[i]["forge_points"]]_vars

\* C12 witness: a table scored twice that has a row whose enhanced forge points
\* differ from its base forge points and whose score is not 0.
C12_Witness ==
    /\ score_pc = "rescored"
    /\ \E i \in DOMAIN df :
          /\ row_locals[i].enhanced_row["forge_points"] # df[i]["forge_points"]
          /\ df[i]["Total Score"] # Zero
          /\ df[i]["Weighted Efficiency"] # Zero

(***************************************************************************)
(* The boost specification: rows with all six base production columns and  *)
(* the four production boost columns, scored under contexts and city       *)
(* boosts for forge points, goods, guild goods and special goods.          *)
(***************************************************************************)
BaseColumns ==
    {"forge_points", "goods", "prev_age_goods", "next_age_goods", "guild_goods",
     "special_goods"}

BoostColumns == {"FP boost", "Goods Boost", "Guild Goods Production %", "Special Goods Production %"}

\* a parsed row that grants the boosts of the set granted, each of 5%
BoostRowOf(granted) ==
    [c \in BaseColumns \cup BoostColumns \cup {SQUARES} |->
        IF c \in BaseColumns THEN Num(40)
        ELSE IF c \in BoostColumns THEN (IF c \in granted THEN Num(5) ELSE Zero)
        ELSE Num(4)]

BoostRows ==
    { BoostRowOf(g) : g \in {{}, {"FP boost"}, {"Goods Boost"}, {"Guild Goods Production %"},
                             {"Special Goods Production %"}, {"FP boost", "Goods Boost"}} }

ContextKeys ==
    {"fp_daily_production", "goods_current_production", "goods_previous_production",
     "goods_next_production", "guild_goods_production", "special_goods_production"}

BoostContextMaps ==
    { [k \in {} |-> Zero],
      [k \in ContextKeys |->
          CASE k = "fp_daily_production"       -> Num(110)
            [] k = "goods_current_production"  -> Num(110)
            [] k = "goods_previous_production" -> Zero
            [] k = "goods_next_production"     -> Num(220)
            [] k = "guild_goods_production"    -> Num(330)
            [] OTHER                           -> Num(55)] }

CityBoostKeys ==
    {"current_fp_boost", "current_goods_boost", "current_guild_goods_boost",
     "current_special_goods_boost"}

CityBoostMaps ==
    { [k \in {} |-> Zero] }
    \cup { [k \in CityBoostKeys |-> IF k = "current_fp_boost" THEN a ELSE b] :
              a \in {Zero, Num(10)}, b \in {Zero, Num(10)} }

BoostInit ==
    /\ LegacyIdle
    /\ PipelineIdle
    /\ SelectorIdle
    /\ FilterIdle
    /\ df \in SeqUpTo(BoostRows, MaxRows)
    /\ user_weights = [k \in {"forge_points", "goods"} |-> Num(1)]
    /\ user_context \in BoostContextMaps
    /\ user_boosts \in CityBoostMaps
    /\ score_pc = "ready"
    /\ row_locals = <<>>
    /\ ParseIdle
    /\ LoadIdle

BoostSpec == BoostInit /\ [][ScoreNext]_vars

\* boost column, base column, context production, city boost
BoostLinks ==
    { <<"FP boost", "forge_points", "fp_daily_production", "current_fp_boost">>,
      <<"Goods Boost", "goods", "goods_current_production", "current_goods_boost">>,
      <<"Goods Boost", "prev_age_goods", "goods_previous_production", "current_goods_boost">>,
      <<"Goods Boost", "next_age_goods", "goods_next_production", "current_goods_boost">>,
      <<"Guild Goods Production %", "guild_goods", "guild_goods_production",
        "current_guild_goods_boost">>,
      <<"Special Goods Production %", "special_goods", "special_goods_production",
        "current_special_goods_boost">> }

CityBoost(l) == IF l[4] \in DOMAIN user_boosts THEN user_boosts[l[4]] ELSE Zero

ContextProduction(l) == IF l[3] \in DOMAIN user_context THEN user_context[l[3]] ELSE Zero

\* context production / (1 + city boost / 100) under a positive city boost, the
\* context production otherwise
ExpectedTrueBase(l) ==
    IF FPos(CityBoost(l))
    THEN FDiv(ContextProduction(l), FAdd(Num(1), FDiv(CityBoost(l), Num(100))))
    ELSE ContextProduction(l)

\* the building's own base production under the combined boost (city + own)
OwnBoosted(i, l) ==
    FMul(df[i][l[2]], FAdd(Num(1), FDiv(FAdd(CityBoost(l), df[i][l[1]]), Num(100))))

\* C13: for a row granting a production boost of b% > 0, the enhanced base
\* metric is the row's own production under the combined boost plus
\* b * true_base / 100, where true_base is the context production divided by
\* (1 + city boost / 100) when the city boost is positive and the context
\* production itself otherwise.
C13_BoostEquivalentAdded ==
    Returned =>
        \A i \in DOMAIN df : \A l \in BoostLinks :
            FPos(df[i][l[1]]) =>
                row_locals[i].enhanced_row[l[2]] =
                    FAdd(OwnBoosted(i, l),
                         FDiv(FMul(df[i][l[1]], ExpectedTrueBase(l)), Num(100)))

\* C13 witness: a scored table with a row granting a boost under a positive
\* city boost and a positive context production, and a row granting a boost
\* under a city boost of 0 and a positive context production.
C13_Witness ==
    /\ Returned
    /\ \E i \in DOMAIN df : \E l \in BoostLinks :
          /\ FPos(df[i][l[1]]) /\ FPos(CityBoost(l)) /\ FPos(ContextProduction(l))
          /\ ExpectedTrueBase(l) # ContextProduction(l)
          /\ row_locals[i].enhanced_row[l[2]] # OwnBoosted(i, l)
    /\ \E i \in DOMAIN df : \E l \in BoostLinks :
          /\ FPos(df[i][l[1]]) /\ ~FPos(CityBoost(l)) /\ FPos(ContextProduction(l))
          /\ row_locals[i].enhanced_row[l[2]] # OwnBoosted(i, l)

(***************************************************************************)
(* The non-additive specification: weights on a boost percentage column    *)
(* and on a weightable column outside the additive list, next to a weight  *)
(* on an additive one.                                                     *)
(***************************************************************************)
NonAdditiveWeightMaps ==
    { [k \in {"forge_points", "FP boost", "Population"} |->
          CASE k = "forge_points" -> a [] k = "FP boost" -> b [] OTHER -> c] :
          a \in {Zero, Num(2)}, b \in {Zero, Num(2)}, c \in {Zero, Num(2)} }

NonAdditiveInit ==
    /\ LegacyIdle
    /\ PipelineIdle
    /\ SelectorIdle
    /\ FilterIdle
    /\ df \in SeqUpTo(ScoreRows, MaxRows)
    /\ user_weights \in NonAdditiveWeightMaps
    /\ user_context = [k \in {"fp_daily_production"} |-> Num(100)]
    /\ user_boosts \in BoostMaps
    /\ score_pc = "ready"
    /\ row_locals = <<>>
    /\ ParseIdle
    /\ LoadIdle

NonAdditiveSpec == NonAdditiveInit /\ [][ScoreNext]_vars

\* a pure boost percentage and a weightable column, both outside the additive
\* list of src/config.py
NonAdditiveMetrics == {"FP boost", "Population"}

\* every positive weight is on one of the non-additive metrics
OnlyNonAdditiveWeights ==
    \A k \in DOMAIN user_weights : FPos(user_weights[k]) => k \in NonAdditiveMetrics

\* C14: when the only positive weights are on metrics outside the additive
\* list, Total Score is 0 for every row.
C14_NonAdditiveIgnored ==
    (Returned /\ OnlyNonAdditiveWeights) =>
        \A i \in DOMAIN df : df[i]["Total Score"] = Zero

\* C14 witness: positive weights on 'FP boost' and on Population only, the rows
\* evaluated, one of them with a positive 'FP boost' and a positive Population.
C14_Witness ==
    /\ Returned
    /\ OnlyNonAdditiveWeights
    /\ FPos(user_weights["FP boost"])
    /\ FPos(user_weights["Population"])
    /\ row_locals # <<>>
    /\ \E i \in DOMAIN df :
          /\ FPos(df[i]["FP boost"])
          /\ FPos(df[i]["Population"])
          /\ df[i]["Total Score"] = Zero

(***************************************************************************)
(* calculate_weighted_efficiency, the legacy wrapper (src/calculations.py) *)
(***************************************************************************)
\* {key: field_config['default'] for key, field_config in USER_CONTEXT_FIELDS.items()}
DefaultContext == [k \in ContextKeys |-> Zero]

\* what the wrapper returns: the value of calculate_direct_weighted_efficiency
WrapperReturn(result) == [raised |-> FALSE, df |-> result.df, locals |-> result.locals]

\* The wrapper reads neither era_stats_df, df_original, selected_translated_era
\* nor lang_code.  Without user_boosts it runs "from config import
\* USER_BOOST_FIELDS", a name src/config.py does not define: ImportError.
calculate_weighted_efficiency(table, weights, args, context, boosts) ==
    IF ~args.boosts_given
    THEN [raised |-> TRUE, df |-> table, locals |-> <<>>]
    ELSE WrapperReturn(calculate_direct_weighted_efficiency(
                      table, weights,
                      IF args.context_given THEN context ELSE DefaultContext,
                      boosts))

\* display names of ERAS_DICT (src/config.py), and one that is not an era
SelectableEras == {"Bronze Age", "Atlantis"}

LegacyInit ==
    /\ FilterIdle
    /\ PipelineIdle
    /\ SelectorIdle
    /\ df \in SeqUpTo(ScoreRows, MaxRows)
    /\ user_weights \in { [k \in {"forge_points"} |-> w] : w \in {Zero, Num(2)} }
    /\ user_context = [k \in {"fp_daily_production"} |-> Num(100)]
    /\ user_boosts = [k \in {"current_fp_boost"} |-> Num(10)]
    /\ legacy_args \in [selected_translated_era : SelectableEras, lang_code : {"en"},
                         context_given : BOOLEAN, boosts_given : BOOLEAN]
    /\ score_pc = "ready"
    /\ row_locals = <<>>
    /\ ParseIdle
    /\ LoadIdle

CalculateWeightedEfficiency ==
    /\ score_pc = "ready"
    /\ \E result \in {calculate_weighted_efficiency(df, user_weights, legacy_args,
                                                     user_context, user_boosts)} :
           /\ df' = result.df
           /\ row_locals' = result.locals
           /\ score_pc' = IF result.raised THEN "raised" ELSE "returned"
    /\ UNCHANGED <<user_weights, user_context, user_boosts>>
    /\ UNCHANGED <<parseVars, loadVars, legacyVars, filterVars, pipelineVars, selectorVars>>

LegacyNext == CalculateWeightedEfficiency

LegacySpec == LegacyInit /\ [][LegacyNext]_vars

\* the display names of the eras of ERAS_DICT (src/config.py)
EraDisplayNames == {"Bronze Age", "Iron Age", "Space Age: Mars"}

\* C15: when the selected era's display name resolves to no era key, the legacy
\* entry point returns (does not raise) and every row's Weighted Efficiency is
\* the sentinel -1.
C15_LegacySentinel ==
    (score_pc \in {"returned", "raised"}
        /\ legacy_args.selected_translated_era \notin EraDisplayNames) =>
            /\ score_pc = "returned"
            /\ \A i \in DOMAIN df : df[i]["Weighted Efficiency"] = Num(-1)

(***************************************************************************)
(* AdvancedFilterManager (src/advanced_filters.py)                         *)
(*                                                                         *)
(* A table is [columns, rows]: the column names of the frame and its rows, *)
(* a function of the row ids (the index).  A frame returned by             *)
(* _apply_filters keeps the order of the rows, so it is modelled as the    *)
(* set of the ids of its rows.  st.session_state.advanced_filters is a     *)
(* dict: a sequence of [column, config] with distinct columns, in          *)
(* insertion order.                                                        *)
(***************************************************************************)
MaxFilterRows == 3

\* a > b; False when either is NaN
FGt(a, b) == ~a.nan /\ ~b.nan /\ a.n * b.d > b.n * a.d

\* a == b; False when either is NaN
FEq(a, b) == ~a.nan /\ ~b.nan /\ a.n * b.d = b.n * a.d

\* the mask of an operator-based numeric filter on one cell
\* mutant of OperatorMask: an operator outside the seven matches no row
OperatorMask_unknown_none(cell, filter_config) ==
    LET operator == filter_config.operator
        value1   == filter_config.value1
    IN  CASE operator = "between"       -> FGe(cell, value1) /\ FGe(filter_config.value2, cell)
          [] operator = "greater_than"  -> FGt(cell, value1)
          [] operator = "greater_equal" -> FGe(cell, value1)
          [] operator = "less_than"     -> FGt(value1, cell)
          [] operator = "less_equal"    -> FGe(value1, cell)
          [] operator = "equal"         -> FEq(cell, value1)
          [] operator = "not_equal"     -> ~FEq(cell, value1)
          [] OTHER                      -> FALSE

\* the mask of an operator-based filter on one cell: the if/elif chain over
\* the seven operators, and the all-True series of its else branch
OperatorMask(cell, filter_config) ==
    LET operator == filter_config.operator
        value1   == filter_config.value1
    IN  CASE operator = "between"       -> FGe(cell, value1) /\ FGe(filter_config.value2, cell)
          [] operator = "greater_than"  -> FGt(cell, value1)
          [] operator = "greater_equal" -> FGe(cell, value1)
          [] operator = "less_than"     -> FGt(value1, cell)
          [] operator = "less_equal"    -> FGe(value1, cell)
          [] operator = "equal"         -> FEq(cell, value1)
          [] operator = "not_equal"     -> ~FEq(cell, value1)
          [] OTHER                      -> TRUE

\* the mask of a legacy min/max filter on one cell
MinMaxMask(cell, filter_config) ==
    /\ ("min" \in DOMAIN filter_config => FGe(cell, filter_config.min))
    /\ ("max" \in DOMAIN filter_config => FGe(filter_config.max, cell))

\* whether the if/elif chain over the keys of a config assigns a mask: a
\* "values" config does so only when its operation is "isin"
HasMask(filter_config) ==
    \/ "operator" \in DOMAIN filter_config
    \/ "min" \in DOMAIN filter_config
    \/ "max" \in DOMAIN filter_config
    \/ "values" \in DOMAIN filter_config /\ filter_config.operation = "isin"
    \/ "values" \notin DOMAIN filter_config /\ "value" \in DOMAIN filter_config

\* the mask of one filter on one row, before the exclusion, for a config
\* with HasMask; a "value" config is compared for equality (the stored
\* configs of the model hold no "contains" operation)
Mask(row, column, filter_config) ==
    IF "operator" \in DOMAIN filter_config THEN OperatorMask(row[column], filter_config)
    ELSE IF "min" \in DOMAIN filter_config \/ "max" \in DOMAIN filter_config
         THEN MinMaxMask(row[column], filter_config)
    ELSE IF "values" \in DOMAIN filter_config THEN row[column] \in filter_config.values
    ELSE row[column] = filter_config.value

\* mutant of ApplyExclusion: the exclusion flag is not applied
ApplyExclusion_ignored(mask, filter_config) == mask

\* "if exclude_mode: mask = ~mask"
ApplyExclusion(mask, filter_config) ==
    IF filter_config.exclude THEN ~mask ELSE mask

\* mutant of ApplyAnd: every filter sees the original table and the last one
\* on a present column decides
RECURSIVE ApplyAnd_not_narrowing(_, _, _, _)
ApplyAnd_not_narrowing(table, filters, i, ids) ==
    IF i > Len(filters) THEN ids
    ELSE LET column == filters[i].column
             filter_config == filters[i].config
         IN  IF column \notin table.columns \/ ~HasMask(filter_config)
             THEN ApplyAnd_not_narrowing(table, filters, i + 1, ids)
             ELSE ApplyAnd_not_narrowing(table, filters, i + 1,
                      { r \in DOMAIN table.rows :
                            ApplyExclusion(Mask(table.rows[r], column, filter_config),
                                           filter_config) })

\* AND logic: the frame is narrowed by each filter in turn; a filter whose
\* column is not in df.columns is skipped, and a config whose branch assigns
\* no mask leaves the frame as it is
RECURSIVE ApplyAnd(_, _, _, _)
ApplyAnd(table, filters, i, ids) ==
    IF i > Len(filters) THEN ids
    ELSE LET column == filters[i].column
             filter_config == filters[i].config
         IN  IF column \notin table.columns \/ ~HasMask(filter_config)
             THEN ApplyAnd(table, filters, i + 1, ids)
             ELSE ApplyAnd(table, filters, i + 1,
                      { r \in ids :
                            ApplyExclusion(Mask(table.rows[r], column, filter_config),
                                           filter_config) })

\* mutant of CombinedMask: a row needs every filter on a present column
CombinedMask_every(table, filters) ==
    { r \in DOMAIN table.rows :
        \A i \in DOMAIN filters :
            filters[i].column \in table.columns =>
                ApplyExclusion(Mask(table.rows[r], filters[i].column, filters[i].config),
                               filters[i].config) }

\* the local column_mask of the OR loop before its first assignment
Unbound == [bound |-> FALSE, rows |-> {}]

\* the OR loop: column_mask is a local of the function, assigned only in the
\* branches with a mask, so a config without one meets the value left by the
\* previous iteration (already inverted if that filter excluded), or no value
\* at all, and "~column_mask" or "combined_mask |= column_mask" then raises
RECURSIVE ApplyOr(_, _, _, _, _)
ApplyOr(table, filters, i, combined_mask, column_mask) ==
    IF i > Len(filters) THEN [raised |-> FALSE, rows |-> combined_mask]
    ELSE LET column == filters[i].column
             filter_config == filters[i].config
         IN  IF column \notin table.columns
             THEN ApplyOr(table, filters, i + 1, combined_mask, column_mask)
             ELSE LET assigned ==
                          IF HasMask(filter_config)
                          THEN [bound |-> TRUE,
                                rows  |-> { r \in DOMAIN table.rows :
                                              Mask(table.rows[r], column, filter_config) }]
                          ELSE column_mask
                      inverted ==
                          { r \in DOMAIN table.rows :
                              ApplyExclusion(r \in assigned.rows, filter_config) }
                  IN  IF ~assigned.bound THEN [raised |-> TRUE, rows |-> {}]
                      ELSE ApplyOr(table, filters, i + 1, combined_mask \cup inverted,
                                   [bound |-> TRUE, rows |-> inverted])

\* OR logic: combined_mask starts all False and is or-ed with the column_mask
\* of every filter on a present column, each computed on the whole table
CombinedMask(table, filters) == ApplyOr(table, filters, 1, {}, Unbound).rows

\* _apply_filters raises: the OR loop reads column_mask before any assignment
apply_filters_raises(table, filters, logic) ==
    /\ filters # <<>>
    /\ logic # "AND"
    /\ ApplyOr(table, filters, 1, {}, Unbound).raised

\* _apply_filters: the ids of the rows of the returned frame
apply_filters(table, filters, logic) ==
    IF filters = <<>> THEN DOMAIN table.rows
    ELSE IF logic = "AND" THEN ApplyAnd(table, filters, 1, DOMAIN table.rows)
    ELSE CombinedMask(table, filters)

\* the result of a _create_*_filter that returns None
NoFilter == [none |-> TRUE]

\* self.df[column].dropna()
ColData(table, column) ==
    { table.rows[r][column] : r \in {q \in DOMAIN table.rows : notna(table.rows[q][column])} }

ColMin(col_data) == CHOOSE v \in col_data : \A w \in col_data : FGe(w, v)

ColMax(col_data) == CHOOSE v \in col_data : \A w \in col_data : FGe(v, w)

\* mutant of create_range_filter: the operands of 'between' are stored as entered
create_range_filter_as_entered(table, column, selected_operator, value1, value2, exclude_mode) ==
    IF column \notin table.columns THEN NoFilter
    ELSE IF ColData(table, column) = {} THEN NoFilter
    ELSE IF ColMin(ColData(table, column)) = ColMax(ColData(table, column)) THEN NoFilter
    ELSE IF selected_operator = "between"
         THEN [operator |-> selected_operator, value1 |-> value1, value2 |-> value2,
               exclude |-> exclude_mode]
    ELSE [operator |-> selected_operator, value1 |-> value1, exclude |-> exclude_mode]

\* _create_range_filter with the values of its widgets: None without the
\* column, without data or without a range; 'between' stores its operands in
\* ascending order
create_range_filter(table, column, selected_operator, value1, value2, exclude_mode) ==
    IF column \notin table.columns THEN NoFilter
    ELSE IF ColData(table, column) = {} THEN NoFilter
    ELSE IF ColMin(ColData(table, column)) = ColMax(ColData(table, column)) THEN NoFilter
    ELSE IF selected_operator = "between"
         THEN [operator |-> selected_operator,
               value1   |-> IF FGt(value1, value2) THEN value2 ELSE value1,
               value2   |-> IF FGt(value1, value2) THEN value1 ELSE value2,
               exclude  |-> exclude_mode]
    ELSE [operator |-> selected_operator, value1 |-> value1, exclude |-> exclude_mode]

\* the unique values of a categorical column
UniqueValues(table, column) == { table.rows[r][column] : r \in DOMAIN table.rows }

\* _create_categorical_filter with the values of its widgets
create_categorical_filter(table, column, selected_values, exclude_mode) ==
    IF column \notin table.columns THEN NoFilter
    ELSE IF Cardinality(UniqueValues(table, column)) <= 1 THEN NoFilter
    ELSE IF selected_values # {}
            /\ Cardinality(selected_values) < Cardinality(UniqueValues(table, column))
         THEN [values |-> selected_values, operation |-> "isin", exclude |-> exclude_mode]
    ELSE NoFilter

\* "column in st.session_state.advanced_filters"
HasColumn(filters, column) == \E i \in DOMAIN filters : filters[i].column = column

\* st.session_state.advanced_filters[column] = filter_result
SetFilter(filters, column, filter_result) ==
    IF HasColumn(filters, column)
    THEN [i \in DOMAIN filters |->
            IF filters[i].column = column
            THEN [column |-> column, config |-> filter_result]
            ELSE filters[i]]
    ELSE Append(filters, [column |-> column, config |-> filter_result])

(***************************************************************************)
(* The filter specification: a table with a numeric and a categorical      *)
(* column; the user adds filters, picks the logic, ticks or unticks         *)
(* "combine army stats" (which drops the numeric column 'Red Attack' from   *)
(* the frame the manager is built with), and the filters are applied.      *)
(***************************************************************************)
NUMERIC == "Red Attack"

CATEGORICAL == "Event"

FilterRowOf(a, b) == [c \in {NUMERIC, CATEGORICAL} |-> IF c = NUMERIC THEN a ELSE b]

\* the rows of df_original the tables are made of, by row id
FilterRows ==
    << FilterRowOf(Num(10), "y"), FilterRowOf(Num(20), "x"), FilterRowOf(Num(30), "y"),
       FilterRowOf(NaN, "x") >>

\* the frames of up to MaxFilterRows of these rows, each row under its id
FilterTables ==
    { [columns |-> {NUMERIC, CATEGORICAL}, rows |-> [r \in ids |-> FilterRows[r]]] :
          ids \in { S \in SUBSET DOMAIN FilterRows : Cardinality(S) <= MaxFilterRows } }

Operators ==
    {"between", "greater_than", "greater_equal", "less_than", "less_equal", "equal",
     "not_equal"}

\* the operands entered in the number inputs
Operands == {Num(10), Num(20)}

FilterInit ==
    /\ manager_df \in FilterTables
    /\ advanced_filters = <<>>
    /\ filter_logic = "AND"
    /\ widget_values = <<>>
    /\ filtered_df = {}
    /\ filter_pc = "render"
    /\ ParseIdle
    /\ ScoreIdle
    /\ LoadIdle
    /\ LegacyIdle
    /\ PipelineIdle
    /\ SelectorIdle

\* the "add filter" button of the numeric tab; st.number_input keeps the
\* operands within [min_val, max_val] of the column
AddNumericFilter ==
    /\ filter_pc = "render"
    /\ \E selected_operator \in Operators, value1 \in Operands, value2 \in Operands,
          exclude_mode \in BOOLEAN :
          LET filter_result == create_range_filter(manager_df, NUMERIC, selected_operator,
                                                   value1, value2, exclude_mode)
              col_data == ColData(manager_df, NUMERIC)
          IN  /\ filter_result # NoFilter
              /\ selected_operator # "between" => value2 = value1
              /\ \A v \in {value1, value2} :
                    FGe(v, ColMin(col_data)) /\ FGe(ColMax(col_data), v)
              /\ advanced_filters' = SetFilter(advanced_filters, NUMERIC, filter_result)
              /\ widget_values' = IF selected_operator = "between"
                                  THEN <<value1, value2>>
                                  ELSE <<>>
    /\ UNCHANGED <<manager_df, filter_logic, filtered_df, filter_pc>>
    /\ UNCHANGED <<parseVars, scoreVars, loadVars, legacyVars, pipelineVars, selectorVars>>

\* the "add filter" button of the categorical tab
AddCategoricalFilter ==
    /\ filter_pc = "render"
    /\ \E selected_values \in SUBSET UniqueValues(manager_df, CATEGORICAL),
          exclude_mode \in BOOLEAN :
          LET filter_result == create_categorical_filter(manager_df, CATEGORICAL,
                                                         selected_values, exclude_mode)
          IN  /\ filter_result # NoFilter
              /\ advanced_filters' = SetFilter(advanced_filters, CATEGORICAL, filter_result)
    /\ UNCHANGED <<manager_df, filter_logic, widget_values, filtered_df, filter_pc>>
    /\ UNCHANGED <<parseVars, scoreVars, loadVars, legacyVars, pipelineVars, selectorVars>>

\* the AND / OR radio
SetFilterLogic ==
    /\ filter_pc = "render"
    /\ filter_logic' = IF filter_logic = "AND" THEN "OR" ELSE "AND"
    /\ UNCHANGED <<manager_df, advanced_filters, widget_values, filtered_df, filter_pc>>
    /\ UNCHANGED <<parseVars, scoreVars, loadVars, legacyVars, pipelineVars, selectorVars>>

\* the "combine army stats" checkbox: the frame for the filters is
\* combine_army_with_ge_gbg(df_original), without the base column, or df_original
ToggleCombineArmyStats ==
    /\ filter_pc = "render"
    /\ manager_df' = [manager_df EXCEPT !.columns =
                          IF NUMERIC \in manager_df.columns
                          THEN manager_df.columns \ {NUMERIC}
                          ELSE manager_df.columns \cup {NUMERIC}]
    /\ UNCHANGED <<advanced_filters, filter_logic, widget_values, filtered_df, filter_pc>>
    /\ UNCHANGED <<parseVars, scoreVars, loadVars, legacyVars, pipelineVars, selectorVars>>

\* "return self._apply_filters(self.df)"
ApplyFilters ==
    /\ filter_pc = "render"
    /\ IF apply_filters_raises(manager_df, advanced_filters, filter_logic)
       THEN filter_pc' = "raised" /\ filtered_df' = filtered_df
       ELSE /\ filtered_df' = apply_filters(manager_df, advanced_filters, filter_logic)
            /\ filter_pc' = "applied"
    /\ UNCHANGED <<manager_df, advanced_filters, filter_logic, widget_values>>
    /\ UNCHANGED <<parseVars, scoreVars, loadVars, legacyVars, pipelineVars, selectorVars>>

FilterNext ==
    \/ AddNumericFilter
    \/ AddCategoricalFilter
    \/ SetFilterLogic
    \/ ToggleCombineArmyStats
    \/ ApplyFilters

FilterSpec == FilterInit /\ [][FilterNext]_vars

(***************************************************************************)
(* Properties of the filter engine.                                        *)
(***************************************************************************)
Applied == filter_pc = "applied"

AllRows == DOMAIN manager_df.rows

\* the filter set that holds only the i-th filter
Single(i) == << advanced_filters[i] >>

Present(i) == advanced_filters[i].column \in manager_df.columns

\* C16 with the single-filter row sets taken in AND mode, as the specification
\* writes them: the result for {F1, F2} is their intersection in AND mode and
\* their union in OR mode.
C16_Original ==
    (Applied /\ Len(advanced_filters) = 2) =>
        LET rows1 == apply_filters(manager_df, Single(1), "AND")
            rows2 == apply_filters(manager_df, Single(2), "AND")
        IN  filtered_df = IF filter_logic = "AND" THEN rows1 \cap rows2
                          ELSE rows1 \cup rows2

\* C16: for two filters F1, F2 (on different columns), the rows returned for
\* {F1, F2} in AND mode are the intersection of the rows returned for {F1} alone
\* and for {F2} alone in AND mode, and the rows returned in OR mode are the
\* union of the rows returned for {F1} alone and for {F2} alone in OR mode.
C16_AndIntersectsOrUnites ==
    (Applied /\ Len(advanced_filters) = 2) =>
        LET rows1 == apply_filters(manager_df, Single(1), filter_logic)
            rows2 == apply_filters(manager_df, Single(2), filter_logic)
        IN  filtered_df = IF filter_logic = "AND" THEN rows1 \cap rows2
                          ELSE rows1 \cup rows2

\* C16 witness: two filters applied in OR mode while the column of one of them
\* is absent; the other keeps some rows and drops some.
C16_Witness ==
    /\ Applied
    /\ Len(advanced_filters) = 2
    /\ filter_logic = "OR"
    /\ \E i \in {1, 2} : ~Present(i)
    /\ filtered_df # {}
    /\ filtered_df # AllRows

\* the filter set that holds the i-th filter with its exclude flag inverted
Inverted(i) ==
    << [advanced_filters[i] EXCEPT !.config.exclude = ~advanced_filters[i].config.exclude] >>

\* C17 as stated: for any single filter, the rows returned with exclude=true
\* and with exclude=false are disjoint and together are all the rows.
C17_Original ==
    (Applied /\ Len(advanced_filters) = 1) =>
        LET inverted == apply_filters(manager_df, Inverted(1), filter_logic)
        IN  /\ filtered_df \cap inverted = {}
            /\ filtered_df \cup inverted = AllRows

\* C17: for a single filter on a column of the table, the rows returned with
\* exclude=true and the rows returned with exclude=false (same mode) are
\* disjoint and together are all the rows of the table.
C17_ExcludePartitions ==
    (Applied /\ Len(advanced_filters) = 1 /\ Present(1)) =>
        LET inverted == apply_filters(manager_df, Inverted(1), filter_logic)
        IN  /\ filtered_df \cap inverted = {}
            /\ filtered_df \cup inverted = AllRows

\* C17 witness: a single numeric filter applied to a table with a missing value
\* in its column; some rows are returned and some are not.
C17_Witness ==
    /\ Applied
    /\ Len(advanced_filters) = 1
    /\ Present(1)
    /\ advanced_filters[1].column = NUMERIC
    /\ \E r \in AllRows : ~notna(manager_df.rows[r][NUMERIC])
    /\ filtered_df # {}
    /\ filtered_df # AllRows

\* the rows whose numeric value lies between the two operands, whichever is
\* the larger, both bounds included
BetweenRows(v1, v2) ==
    { r \in AllRows :
        LET cell == manager_df.rows[r][NUMERIC]
            lo == IF v1.n * v2.d <= v2.n * v1.d THEN v1 ELSE v2
            hi == IF v1.n * v2.d <= v2.n * v1.d THEN v2 ELSE v1
        IN  /\ ~cell.nan
            /\ lo.n * cell.d <= cell.n * lo.d
            /\ cell.n * hi.d <= hi.n * cell.d }

BetweenOnly ==
    /\ Len(advanced_filters) = 1
    /\ Present(1)
    /\ "operator" \in DOMAIN advanced_filters[1].config
    /\ advanced_filters[1].config.operator = "between"

RECURSIVE WithoutAbsent(_, _)
WithoutAbsent(filters, columns) ==
    IF filters = <<>> THEN <<>>
    ELSE IF Head(filters).column \in columns
         THEN << Head(filters) >> \o WithoutAbsent(Tail(filters), columns)
    ELSE WithoutAbsent(Tail(filters), columns)

\* C19: in AND and in OR mode the result equals the result of the filter set
\* without the filters on absent columns (the unchanged table when none is
\* left).
C19_AbsentColumnSkipped ==
    Applied =>
        filtered_df = apply_filters(manager_df,
                                    WithoutAbsent(advanced_filters, manager_df.columns),
                                    filter_logic)

\* the filter set in the reverse order of insertion
Reversed(filters) == [i \in DOMAIN filters |-> filters[Len(filters) + 1 - i]]

\* {NUMERIC between 10..20, exclude=false} and {CATEGORICAL isin ["x"], exclude=true}
ScenarioD ==
    /\ Len(advanced_filters) = 2
    /\ \A i \in {1, 2} : Present(i)
    /\ \E i \in {1, 2} :
          advanced_filters[i] =
              [column |-> NUMERIC,
               config |-> [operator |-> "between", value1 |-> Num(10), value2 |-> Num(20),
                           exclude |-> FALSE]]
    /\ \E i \in {1, 2} :
          advanced_filters[i] =
              [column |-> CATEGORICAL,
               config |-> [values |-> {"x"}, operation |-> "isin", exclude |-> TRUE]]

\* C20: in AND mode a row is returned exactly when, for every filter on a
\* present column, the filter's match on the row differs from its exclude flag;
\* the order of the filters does not matter; and scenario D returns exactly the
\* rows with 10 <= NUMERIC <= 20 and CATEGORICAL # "x".
C20_AndSurvivors ==
    (Applied /\ filter_logic = "AND") =>
        /\ filtered_df =
              { r \in AllRows :
                  \A i \in DOMAIN advanced_filters :
                      Present(i) =>
                          (Mask(manager_df.rows[r], advanced_filters[i].column,
                                advanced_filters[i].config)
                              # advanced_filters[i].config.exclude) }
        /\ filtered_df = apply_filters(manager_df, Reversed(advanced_filters), "AND")
        /\ ScenarioD =>
              filtered_df =
                  { r \in AllRows :
                      LET cell == manager_df.rows[r][NUMERIC]
                      IN  /\ ~cell.nan
                          /\ 10 * cell.d <= cell.n
                          /\ cell.n <= 20 * cell.d
                          /\ manager_df.rows[r][CATEGORICAL] # "x" }

\* C20 witness: scenario D applied to a table with a row that passes both
\* filters, a row that passes only the numeric one and a row that passes only
\* the categorical one.
C20_Witness ==
    /\ Applied
    /\ filter_logic = "AND"
    /\ ScenarioD
    /\ filtered_df # {}
    /\ \E r \in AllRows \ filtered_df :
          /\ manager_df.rows[r][NUMERIC] = Num(20)
          /\ manager_df.rows[r][CATEGORICAL] = "x"
    /\ \E r \in AllRows \ filtered_df :
          /\ manager_df.rows[r][NUMERIC] = Num(30)
          /\ manager_df.rows[r][CATEGORICAL] = "y"

(***************************************************************************)
(* The stored-filter specification: _apply_filters reads the configs from  *)
(* st.session_state.advanced_filters, whatever wrote them.  The session    *)
(* holds one or two configs, among them an operator outside the seven and  *)
(* a "values" config whose operation is not "isin".                        *)
(***************************************************************************)
UnknownOperator == "matches"

StoredNumericConfigs ==
    { [operator |-> op, value1 |-> Num(20), exclude |-> e] :
          op \in {"greater_than", UnknownOperator}, e \in BOOLEAN }

StoredCategoricalConfigs ==
    { [values |-> {"x"}, operation |-> o, exclude |-> e] :
          o \in {"isin", "notin"}, e \in BOOLEAN }

StoredFilters ==
    LET numeric == { [column |-> NUMERIC, config |-> c] : c \in StoredNumericConfigs }
        categorical == { [column |-> CATEGORICAL, config |-> c] : c \in StoredCategoricalConfigs }
    IN  { <<f>> : f \in numeric \cup categorical }
        \cup { <<f, g>> : f \in numeric, g \in categorical }
        \cup { <<g, f>> : f \in numeric, g \in categorical }

StoredFilterInit ==
    /\ manager_df \in FilterTables
    /\ advanced_filters \in StoredFilters
    /\ filter_logic \in {"AND", "OR"}
    /\ widget_values = <<>>
    /\ filtered_df = {}
    /\ filter_pc = "render"
    /\ ParseIdle
    /\ ScoreIdle
    /\ LoadIdle
    /\ LegacyIdle
    /\ PipelineIdle
    /\ SelectorIdle

StoredFilterNext == ApplyFilters

StoredFilterSpec == StoredFilterInit /\ [][StoredFilterNext]_vars

\* the filter at position i is operator-based with an operator outside the seven
UnknownAt(i) ==
    /\ "operator" \in DOMAIN advanced_filters[i].config
    /\ advanced_filters[i].config.operator \notin Operators

\* C21: a numeric filter whose operator is not one of the seven known
\* operators matches every row before the exclusion, in AND and in OR mode:
\* alone it returns every row (no row when it excludes), and the call raises
\* only if some other config assigns no mask
C21_UnknownOperatorMatchesAll ==
    filter_pc # "render" =>
        /\ (Len(advanced_filters) = 1 /\ UnknownAt(1)) =>
               /\ filter_pc = "applied"
               /\ filtered_df = IF advanced_filters[1].config.exclude THEN {} ELSE AllRows
        /\ filter_pc = "raised" =>
               \E j \in DOMAIN advanced_filters :
                   /\ "values" \in DOMAIN advanced_filters[j].config
                   /\ advanced_filters[j].config.operation # "isin"

C21_Witness ==
    /\ filter_pc = "applied"
    /\ filter_logic = "OR"
    /\ Len(advanced_filters) = 1
    /\ UnknownAt(1)
    /\ ~advanced_filters[1].config.exclude
    /\ Cardinality(DOMAIN manager_df.rows) = 3
    /\ filtered_df = DOMAIN manager_df.rows

\* the rows a filter contributes in OR mode when only its own configuration
\* is read: its mask after the exclusion, and no row if no branch assigns one
OwnContribution(i) ==
    IF "values" \in DOMAIN advanced_filters[i].config
       /\ advanced_filters[i].config.operation # "isin"
    THEN {}
    ELSE { r \in AllRows :
             ApplyExclusion(Mask(manager_df.rows[r], advanced_filters[i].column,
                                 advanced_filters[i].config),
                            advanced_filters[i].config) }

\* C28: in OR mode the result is the union of the filters' own contributions,
\* a filter without a mask-producing branch contributes no rows, and the
\* call does not raise
C28_OrOwnConfigOnly ==
    (filter_pc # "render" /\ filter_logic = "OR") =>
        /\ filter_pc = "applied"
        /\ filtered_df = UNION { OwnContribution(i) : i \in DOMAIN advanced_filters }

(***************************************************************************)
(* The boost specification of the parser: _get_boost_data is called with   *)
(* an era component and a shared component, each holding a short list of   *)
(* boost entries, some with a (type, targetedFeature) pair outside the map. *)
(***************************************************************************)
MaxBoosts == 2

BoostEntries ==
    { [type |-> t, target |-> f, value |-> 5] :
          t \in {"att_def_boost_attacker_defender", "att_boost_attacker", "coin_production",
                 "critical_hit_chance"},
          f \in {"all", "battleground"} }
    \cup { [type |-> "att_def_boost_attacker", target |-> "all", value |-> 10] }

BoostLists(n) == UNION { [1..k -> BoostEntries] : k \in 0..n }

BoostComponents ==
    { [k \in {"BronzeAge", "AllAge"} |->
          [EmptyComponent EXCEPT !.boosts = IF k = "AllAge" THEN shared ELSE own]] :
          own \in BoostLists(MaxBoosts), shared \in BoostLists(1) }

BoostDataInit ==
    /\ arg_components \in BoostComponents
    /\ arg_era_key = "BronzeAge"
    /\ parse_pc = "ready"
    /\ size_data = None
    /\ pop_happiness = None
    /\ production = None
    /\ boost_fields = None
    /\ ScoreIdle
    /\ LoadIdle
    /\ LegacyIdle
    /\ FilterIdle
    /\ PipelineIdle
    /\ SelectorIdle

\* BuildingAnalyzer._get_boost_data(components, era_key)
GetBoostData ==
    /\ parse_pc = "ready"
    /\ IF get_boost_data_raises(arg_components, arg_era_key)
       THEN parse_pc' = "raised" /\ boost_fields' = None
       ELSE parse_pc' = "done" /\ boost_fields' = get_boost_data(arg_components, arg_era_key)
    /\ UNCHANGED <<arg_components, arg_era_key, size_data, pop_happiness, production>>
    /\ UNCHANGED <<scoreVars, loadVars, legacyVars, filterVars, pipelineVars, selectorVars>>

BoostDataNext == GetBoostData

BoostDataSpec == BoostDataInit /\ [][BoostDataNext]_vars

\* the boost entries the call reads: those of the era component, then the shared ones
EntriesRead == arg_components["BronzeAge"].boosts \o arg_components["AllAge"].boosts

\* the sum of the values of the entries from position i on whose pair is mapped to field k
RECURSIVE MappedSum(_, _, _)
MappedSum(entries, i, k) ==
    IF i > Len(entries) THEN 0
    ELSE (IF \E j \in DOMAIN boost_map(entries[i].type, entries[i].target) :
                 boost_map(entries[i].type, entries[i].target)[j] = k
          THEN entries[i].value ELSE 0)
         + MappedSum(entries, i + 1, k)

\* the pairs of the model's entries that are keys of the fixed map, as the source lists them
MappedPair(entry) ==
    \/ entry.type \in {"att_def_boost_attacker_defender", "att_boost_attacker", "att_def_boost_attacker"}
    \/ entry.type = "coin_production" /\ entry.target = "all"

\* C25: every output field holds the sum of the values of the era and shared
\* entries whose (type, targetedFeature) pair is mapped to it; a lone
\* ('att_def_boost_attacker_defender', 'all') entry adds its value to Red
\* Attack, Red Defense, Blue Attack and Blue Defense and to nothing else; an
\* entry whose pair is not in the map changes no field
C25_MappedFieldsAdded ==
    parse_pc = "done" =>
        /\ \A k \in BoostKeys : boost_fields[k] = Num(MappedSum(EntriesRead, 1, k))
        /\ (\A i \in DOMAIN EntriesRead : ~MappedPair(EntriesRead[i])) =>
               \A k \in BoostKeys : boost_fields[k] = Zero
        /\ (Len(EntriesRead) = 1 /\ EntriesRead[1].type = "att_def_boost_attacker_defender"
            /\ EntriesRead[1].target = "all") =>
               \A k \in BoostKeys :
                   boost_fields[k] =
                       IF k \in {"Red Attack", "Red Defense", "Blue Attack", "Blue Defense"}
                       THEN Num(5) ELSE Zero

C25_Witness ==
    /\ parse_pc = "done"
    /\ Len(arg_components["BronzeAge"].boosts) = 2
    /\ Len(arg_components["AllAge"].boosts) = 1
    /\ arg_components["BronzeAge"].boosts[1].type = "att_def_boost_attacker_defender"
    /\ arg_components["BronzeAge"].boosts[2].type = "critical_hit_chance"
    /\ arg_components["AllAge"].boosts[1].type = "att_def_boost_attacker"
    /\ boost_fields["Red Attack"] = Num(15)
    /\ boost_fields["Blue Attack"] = Num(5)

(***************************************************************************)
(* Chest rewards (ProdSpec): a building whose only product is a chest,     *)
(* directly or as the one product of a random group.                       *)
(***************************************************************************)
\* the only product of the building, when it has exactly one
LoneProduct ==
    LET key == CHOOSE k \in DOMAIN arg_components : TRUE
    IN  arg_components[key].production.products[1]

HasLoneProduct ==
    /\ Cardinality(DOMAIN arg_components) = 1
    /\ \A k \in DOMAIN arg_components :
           /\ arg_components[k].isDict
           /\ arg_components[k].production.kind = "options"
           /\ Len(arg_components[k].production.products) = 1

IsChest(option) ==
    /\ option.type = "genericReward"
    /\ LookupRewards(option.reward_id).present
    /\ LookupRewards(option.reward_id).type = "chest"
    /\ LookupRewards(option.reward_id).possible.kind = "first"

\* first reward amount * its drop chance * the chance of the enclosing branch
ChestYield(option, branch_chance) ==
    LET possible == LookupRewards(option.reward_id).possible
    IN  FMul(FDiv(FMul(Num(possible.amount), Num(possible.drop_chance)), Num(100)), branch_chance)

\* the per-kind production fields that hold a non-zero value (the two
\* '..._amount' totals repeat the per-type unit fields)
CreditedFields ==
    { k \in ProductionKeys \ {"units_amount", "next_age_units_amount"} :
          production.values[k] # Zero }

CreditedOnce(yield) ==
    /\ Cardinality(CreditedFields) = 1
    /\ \A k \in CreditedFields : production.values[k] = Round2(yield)

\* C27: the estimated yield of a chest (first reward amount times its drop
\* chance, times the drop chance of the enclosing random branch if any) is
\* credited exactly once, to a single production field, in the direct path as
\* in the random-group path
C27_ChestCreditedOnce ==
    (ParseDone /\ HasLoneProduct) =>
        /\ IsChest(LoneProduct) => CreditedOnce(ChestYield(LoneProduct, Num(1)))
        /\ (LoneProduct.type = "random" /\ IsChest(LoneProduct.products[1].product)) =>
               CreditedOnce(ChestYield(LoneProduct.products[1].product,
                                       LoneProduct.products[1].dropChance))

(***************************************************************************)
(* BuildingAnalyzer.analyze and load_and_process_data (src/data_loader.py), *)
(* calculate_era_stats (src/calculations.py).                              *)
(*                                                                         *)
(* A frame is a record [columns, rows]: the set of its column names and    *)
(* its rows, each a function from the columns to cells.  A numeric cell is *)
(* a number of the exact arithmetic above (NaN included); any other cell   *)
(* keeps the value the parser produced.                                    *)
(***************************************************************************)
\* pd.DataFrame()
EmptyFrame == [columns |-> {}, rows |-> <<>>]

\* df.empty: an axis of length 0
IsEmptyFrame(table) == table.columns = {} \/ DOMAIN table.rows = {}

\* the columns analyze() leaves out of numeric_cols_to_check, as the source lists them
NotCoerced ==
    { "id", "Event", "name", "Era", "size", "Road", "Limited", "Ally room",
      "Unit type", "Next Age Unit type", "Other productions" }

\* the keys of a building record whose value is text, or a list of texts
TextKeys ==
    { "id", "name", "Event", "Era", "size", "Limited", "Ally room",
      "units_type", "next_age_units_type", "other_items", "Other productions" }

\* the keys of a building record whose value is a Python int
IntKeys == { "x", "y", "Population", "Happiness" }

\* pd.to_numeric(self.df[col], errors='coerce') on one cell: a number keeps
\* its value, a text that is no number (the unit summaries are "" or
\* "Fast: 1.00", the other items a list) becomes NaN
to_numeric(col, cell) ==
    IF col \in TextKeys THEN NaN
    ELSE IF col \in IntKeys THEN Num(cell)
    ELSE cell

\* analyze(): no frame columns for an empty record list; otherwise one row per
\* record, every column outside NotCoerced passed through pd.to_numeric
analyze(records) ==
    IF records = <<>> THEN EmptyFrame
    ELSE [ columns |-> DOMAIN records[1],
           rows    |-> [ i \in DOMAIN records |->
                           [ col \in DOMAIN records[i] |->
                               IF col \in NotCoerced THEN records[i][col]
                               ELSE to_numeric(col, records[i][col]) ] ] ]

\* mutant of ExceptHandler: the exception is passed on to the caller
ExceptHandler_reraise(attempt) == [raised |-> TRUE, df |-> EmptyFrame]

\* "except Exception as e: ... return pd.DataFrame()"
ExceptHandler(attempt) == [raised |-> FALSE, df |-> EmptyFrame]

\* analyzer.analyze() on the records load_data() left, unless load_data() raised
AnalyzeLoaded(ld) ==
    IF ld.raised THEN [raised |-> TRUE, df |-> EmptyFrame]
    ELSE [raised |-> FALSE, df |-> analyze(ld.building_data_list)]

\* the try block of load_and_process_data: load_data() raises when the source
\* cannot be read or parsed, or when an entry makes the loop raise
LoadAndAnalyze(src) ==
    IF ~src.readable THEN [raised |-> TRUE, df |-> EmptyFrame]
    ELSE AnalyzeLoaded(load_data(InitialLoad, src.data, 1))

\* the try statement of load_and_process_data: the handler runs when the body raised
TryExcept(attempt) == IF attempt.raised THEN ExceptHandler(attempt) ELSE attempt

\* load_and_process_data(metadata_file_path)
load_and_process_data(src) ==
    IF src.kind = "file" /\ ~src.exists THEN [raised |-> FALSE, df |-> EmptyFrame]
    ELSE TryExcept(LoadAndAnalyze(src))

\* config.WEIGHTABLE_COLUMNS
WEIGHTABLE_COLUMNS ==
    << "forge_points", "forgepoint_package",
       "goods", "next_age_goods", "prev_age_goods", "special_goods", "guild_goods",
       "rogues", "fast_units", "heavy_units", "ranged_units", "artillery_units", "light_units",
       "next_age_fast_units", "next_age_heavy_units", "next_age_ranged_units",
       "next_age_artillery_units", "next_age_light_units",
       "Population",
       "Red Attack", "Red Defense", "Blue Attack", "Blue Defense",
       "Red GBG Attack", "Red GBG Defense", "Blue GBG Attack", "Blue GBG Defense",
       "Red GE Attack", "Red GE Defense", "Blue GE Attack", "Blue GE Defense",
       "Red QI Attack", "Red QI Defense", "Blue QI Attack", "Blue QI Defense",
       "QI Coin %", "QI Coin at start", "QI Supplies %", "QI Supplies at start",
       "QI Goods at start", "QI Units at start", "QA per hour" >>

\* the empty result of calculate_era_stats
EmptyStats == [raised |-> FALSE, empty |-> TRUE, stats |-> <<>>]

\* mutant of GroupRows: every group holds the rows of the whole table
GroupRows_whole_table(table, era) == DOMAIN table.rows

\* df.groupby('Era'): the rows of one era
GroupRows(table, era) == { r \in DOMAIN table.rows : table.rows[r]["Era"] = era }

\* the 'min' and 'max' aggregations of one column over a group; missing
\* values are skipped, and a group without a value has NaN for both
Aggregate(table, group, col) ==
    LET present == { table.rows[r][col] : r \in { q \in group : notna(table.rows[q][col]) } }
    IN  IF present = {} THEN [min |-> NaN, max |-> NaN]
        ELSE [ min |-> CHOOSE v \in present : \A w \in present : FGe(w, v),
               max |-> CHOOSE v \in present : \A w \in present : FGe(v, w) ]

\* mutant of calculate_era_stats: neither the guard nor the try
calculate_era_stats_unguarded(table) ==
    [raised |-> TRUE, empty |-> FALSE, stats |-> <<>>]

\* calculate_era_stats(df): raised, whether the result is an empty frame, and
\* era -> column -> [min, max]
calculate_era_stats(table) ==
    IF IsEmptyFrame(table) \/ "Era" \notin table.columns THEN EmptyStats
    ELSE LET cols_to_agg == { WEIGHTABLE_COLUMNS[i] : i \in DOMAIN WEIGHTABLE_COLUMNS }
                                \cap table.columns
             eras == { table.rows[r]["Era"] : r \in DOMAIN table.rows }
         IN  IF cols_to_agg = {} THEN EmptyStats
             ELSE [ raised |-> FALSE, empty |-> FALSE,
                    stats  |-> [ era \in eras |->
                                   [ col \in cols_to_agg |->
                                       Aggregate(table, GroupRows(table, era), col) ] ] ]

(***************************************************************************)
(* The pipeline specification: a metadata source that exists or not, can   *)
(* be read or not, and holds up to MaxEntries entries; the caller runs     *)
(* load_and_process_data and then calculate_era_stats on the table it got. *)
(***************************************************************************)
\* a building that trains units
UnitEntry ==
    [ id |-> "W_MultiAge_Special", name |-> "Barracks",
      components |-> ComponentsDict(<<"AllAge", "BronzeAge">>,
          [k \in {"AllAge", "BronzeAge"} |->
              IF k = "AllAge" THEN AllAgeComponent
              ELSE EraComponent(3, UnitOption("NextEraheavy_melee", 1))]) ]

PipelineEntries ==
    { e \in BuildingEntries : e.name \in {"Winter Spire", "Temple of Relics", "No id"} }
    \cup {UnitEntry}

Sources ==
    { [kind |-> k, exists |-> x, readable |-> r, data |-> d] :
          k \in {"file", "url"}, x \in BOOLEAN, r \in BOOLEAN,
          d \in SeqUpTo(PipelineEntries, MaxEntries) }

PipelineInit ==
    /\ source \in { s \in Sources : (s.kind = "url" => s.exists) /\ (~s.exists => ~s.readable) }
    /\ analyzer_df = <<>>
    /\ era_stats = <<>>
    /\ pipeline_pc = "ready"
    /\ ParseIdle
    /\ ScoreIdle
    /\ LoadIdle
    /\ LegacyIdle
    /\ FilterIdle
    /\ SelectorIdle

\* df_original = load_and_process_data(metadata_file_path)
LoadAndProcessData ==
    /\ pipeline_pc = "ready"
    /\ \E result \in {load_and_process_data(source)} :
           /\ analyzer_df' = result.df
           /\ pipeline_pc' = IF result.raised THEN "raised" ELSE "loaded"
    /\ UNCHANGED <<source, era_stats>>
    /\ UNCHANGED <<parseVars, scoreVars, loadVars, legacyVars, filterVars, selectorVars>>

\* calculate_era_stats(df) on the table load_and_process_data returned
CalculateEraStats ==
    /\ pipeline_pc = "loaded"
    /\ era_stats' = calculate_era_stats(analyzer_df)
    /\ pipeline_pc' = IF era_stats'.raised THEN "stats_raised" ELSE "stats"
    /\ UNCHANGED <<source, analyzer_df>>
    /\ UNCHANGED <<parseVars, scoreVars, loadVars, legacyVars, filterVars, selectorVars>>

PipelineNext == LoadAndProcessData \/ CalculateEraStats

PipelineSpec == PipelineInit /\ [][PipelineNext]_vars

Loaded == pipeline_pc \in {"loaded", "stats", "raised", "stats_raised"}

\* the record list load_data builds from the source
RecordsOf(src) == load_data(InitialLoad, src.data, 1).building_data_list

\* C22: load_and_process_data never passes an exception on: for a missing
\* file, an unreadable source or a raising load_data it returns an empty table
C22_NeverPropagates ==
    /\ pipeline_pc = "loaded" =>
          ((~source.exists \/ ~source.readable \/ load_data(InitialLoad, source.data, 1).raised)
               => analyzer_df = EmptyFrame)
    /\ pipeline_pc # "raised"

C22_Witness ==
    /\ pipeline_pc = "loaded"
    /\ source.exists /\ source.readable
    /\ Len(source.data) = 2
    /\ source.data[1].name = "Winter Spire"
    /\ source.data[2].name = "No id"
    /\ analyzer_df = EmptyFrame

\* C23: for an empty input list load_data leaves an empty record list,
\* analyze yields an empty table and calculate_era_stats an empty result, and
\* nothing raises
C23_EmptyChain ==
    (Loaded /\ source.exists /\ source.readable /\ source.data = <<>>) =>
        /\ pipeline_pc \notin {"raised", "stats_raised"}
        /\ RecordsOf(source) = <<>>
        /\ analyzer_df = EmptyFrame
        /\ pipeline_pc = "stats" => era_stats = EmptyStats

C23_Witness ==
    /\ pipeline_pc = "stats"
    /\ source.exists /\ source.readable /\ source.data = <<>>
    /\ analyzer_df = EmptyFrame
    /\ era_stats.empty

\* the identity and label columns of the records
LabelColumns ==
    { "id", "name", "Event", "size", "units_type", "next_age_units_type", "Other productions" }

\* C26: after analyze() every identity or label column still holds, on every
\* row, the text the parser produced
C26_LabelsKept ==
    (pipeline_pc = "loaded" /\ ~IsEmptyFrame(analyzer_df)) =>
        \A i \in DOMAIN analyzer_df.rows :
            \A col \in LabelColumns :
                analyzer_df.rows[i][col] = RecordsOf(source)[i][col]

(***************************************************************************)
(* The era-statistics specification: calculate_era_stats on a table of up  *)
(* to MaxStatRows rows of two eras, with or without the 'Era' column and   *)
(* the weightable columns.  The weightable columns of a table built by     *)
(* analyze() hold the numbers of the parser, none of them missing.         *)
(***************************************************************************)
MaxStatRows == 3

StatRowOf(era, fp, pop) ==
    [ c \in {"name", "Era", "forge_points", "Population"} |->
        CASE c = "name" -> "Building"
          [] c = "Era" -> era
          [] c = "forge_points" -> fp
          [] c = "Population" -> pop ]

\* the rows the tables are made of, by row id
StatRows ==
    << StatRowOf("BronzeAge", Num(0), Num(-5)), StatRowOf("BronzeAge", Num(10), Num(20)),
       StatRowOf("IronAge", Num(5), Num(20)), StatRowOf("IronAge", Num(5), Num(-5)),
       StatRowOf("BronzeAge", Rat(5, 2), Num(0)) >>

StatColumnSets ==
    { {"name", "Era", "forge_points", "Population"}, {"name", "forge_points", "Population"},
      {"name", "Era"}, {"name", "Era", "forge_points"} }

StatTables ==
    { [columns |-> cols, rows |-> [r \in ids |-> [c \in cols |-> StatRows[r][c]]]] :
          cols \in StatColumnSets,
          ids \in { S \in SUBSET DOMAIN StatRows : Cardinality(S) <= MaxStatRows } }

EraStatsInit ==
    /\ source = <<>>
    /\ analyzer_df \in StatTables
    /\ era_stats = <<>>
    /\ pipeline_pc = "loaded"
    /\ ParseIdle
    /\ ScoreIdle
    /\ LoadIdle
    /\ LegacyIdle
    /\ FilterIdle
    /\ SelectorIdle

EraStatsNext == CalculateEraStats

EraStatsSpec == EraStatsInit /\ [][EraStatsNext]_vars

\* the rows of an era, read off the table
RowsOfEra(era) == { r \in DOMAIN analyzer_df.rows : analyzer_df.rows[r]["Era"] = era }

\* C24: for every era that has rows and every weightable metric of the table,
\* the result holds a min and a max with min <= value <= max on every row of
\* the era, both attained by a row of that era; the result is empty, and
\* nothing raises, when the table is empty or has no Era column
C24_EraBounds ==
    /\ pipeline_pc # "stats_raised"
    /\ pipeline_pc = "stats" =>
          IF IsEmptyFrame(analyzer_df) \/ "Era" \notin analyzer_df.columns
          THEN era_stats = EmptyStats
          ELSE \A r \in DOMAIN analyzer_df.rows :
                 \A col \in {"forge_points", "Population"} \cap analyzer_df.columns :
                   LET era    == analyzer_df.rows[r]["Era"]
                       bounds == era_stats.stats[era][col]
                   IN  /\ FGe(analyzer_df.rows[r][col], bounds.min)
                       /\ FGe(bounds.max, analyzer_df.rows[r][col])
                       /\ \E q \in RowsOfEra(era) : analyzer_df.rows[q][col] = bounds.min
                       /\ \E q \in RowsOfEra(era) : analyzer_df.rows[q][col] = bounds.max

C24_Witness ==
    /\ pipeline_pc = "stats"
    /\ DOMAIN analyzer_df.rows = {1, 2, 3}
    /\ analyzer_df.columns = {"name", "Era", "forge_points", "Population"}
    /\ era_stats.stats["BronzeAge"]["forge_points"] = [min |-> Num(0), max |-> Num(10)]
    /\ era_stats.stats["IronAge"]["Population"] = [min |-> Num(20), max |-> Num(20)]

(***************************************************************************)
(* The failing-row specification: tables in which a row holds a text where *)
(* the scoring expects a number, so that the row loop raises at that row.  *)
(***************************************************************************)
FailingRows ==
    { [ScoreRowOf(Num(50), Zero, squares) EXCEPT !["medals"] = medals] :
          squares \in {Num(2), Text}, medals \in {Num(3), Text} }

FailingWeightMaps ==
    { [k \in {"forge_points", "medals"} |-> IF k = "forge_points" THEN a ELSE b] :
          a \in {Zero, Num(2)}, b \in {Zero, Num(2)} }

FailingInit ==
    /\ df \in SeqUpTo(FailingRows, MaxRows)
    /\ user_weights \in FailingWeightMaps
    /\ user_context = [k \in {"fp_daily_production"} |-> Zero]
    /\ user_boosts = [k \in {"current_fp_boost"} |-> Zero]
    /\ score_pc = "ready"
    /\ row_locals = <<>>
    /\ ParseIdle
    /\ LoadIdle
    /\ LegacyIdle
    /\ FilterIdle
    /\ PipelineIdle
    /\ SelectorIdle

FailingSpec == FailingInit /\ [][ScoreNext]_vars

\* scoring row i raises: its footprint is a text, or its medals are and carry a weight
RaisesAt(i) ==
    \/ df[i][SQUARES] = Text
    \/ df[i]["medals"] = Text /\ user_weights["medals"] = Num(2)

\* C29: if scoring a row raises inside the row loop, the call still returns,
\* with Total Score = 0 and Weighted Efficiency = 0 on every row, the rows
\* scored before the failure included
C29_AllZeroAfterFailure ==
    (score_pc # "ready" /\ (\E k \in DOMAIN user_weights : FPos(user_weights[k]))
        /\ \E i \in DOMAIN df : RaisesAt(i)) =>
        /\ score_pc = "returned"
        /\ \A i \in DOMAIN df :
              /\ df[i]["Total Score"] = Zero
              /\ df[i]["Weighted Efficiency"] = Zero

\* C29 witness: the first row was scored (100 points on 2 squares) before the
\* second row raised
C29_Witness ==
    /\ score_pc = "returned"
    /\ Len(df) = 2
    /\ user_weights["forge_points"] = Num(2)
    /\ ~RaisesAt(1) /\ RaisesAt(2)
    /\ Len(row_locals) = 1
    /\ row_locals[1].score = Num(100)
    /\ df[1]["Total Score"] = Zero
    /\ df[2]["Total Score"] = Zero

(***************************************************************************)
(* ColumnSelector (src/column_selector.py).  The selector is re-run after  *)
(* every interaction; an action below is one interaction together with the *)
(* run that follows it, up to the list that run returns.  A checkbox       *)
(* reports the membership of its column unless the user has just clicked   *)
(* it.                                                                     *)
(***************************************************************************)
\* config.COLUMN_GROUPS, in the order the dict is written
COLUMN_GROUPS ==
    << [key |-> "basic_info",
        columns |-> <<"Event", "Weighted Efficiency", "Total Score", "size",
                      "Nbr of squares (Avg)", "Road", "Limited", "Ally room", "Population",
                      "Happiness">>],
       [key |-> "production",
        columns |-> <<"coins", "supplies", "medals", "forge_points", "forgepoint_package",
                      "goods", "next_age_goods", "prev_age_goods", "special_goods",
                      "guild_goods">>],
       [key |-> "military",
        columns |-> <<"rogues", "fast_units", "heavy_units", "ranged_units",
                      "artillery_units", "light_units", "next_age_fast_units",
                      "next_age_heavy_units", "next_age_ranged_units",
                      "next_age_artillery_units", "next_age_light_units">>],
       [key |-> "base_army",
        columns |-> <<"Red Attack", "Red Defense", "Blue Attack", "Blue Defense">>],
       [key |-> "gbg",
        columns |-> <<"Red GBG Attack", "Red GBG Defense", "Blue GBG Attack",
                      "Blue GBG Defense">>],
       [key |-> "ge",
        columns |-> <<"Red GE Attack", "Red GE Defense", "Blue GE Attack", "Blue GE Defense">>],
       [key |-> "qi",
        columns |-> <<"Red QI Attack", "Red QI Defense", "Blue QI Attack", "Blue QI Defense",
                      "QI Coin %", "QI Coin at start", "QI Supplies %", "QI Supplies at start",
                      "QI Goods at start", "QI Units at start", "QA per hour">>],
       [key |-> "boosts",
        columns |-> <<"Coin %", "Supplies %", "FP boost", "Guild Goods Production %",
                      "Special Goods Production %", "Medal Boost", "Goods Boost">>],
       [key |-> "consumables",
        columns |-> <<"finish_special_production", "finish_goods_production", "store_kit",
                      "mass_self_aid_kit", "self_aid_kit", "one_up_kit", "renovation_kit",
                      "finish_all_supplies">>],
       [key |-> "other", columns |-> <<"Other productions">>] >>

\* the columns of df_original in the model
SelectorDfColumns == {"name", "Event", "Red Attack"}

\* _get_available_columns: per group, its columns that the frame has or that are virtual
AvailableIn(g) ==
    { COLUMN_GROUPS[g].columns[i] : i \in DOMAIN COLUMN_GROUPS[g].columns }
        \cap (SelectorDfColumns \cup {"Weighted Efficiency", "Total Score"})

AvailableColumns == UNION { AvailableIn(g) : g \in DOMAIN COLUMN_GROUPS }

\* the class attribute COLUMN_PRESETS: preset key -> columns
COLUMN_PRESETS ==
    [ key \in {"basic_analysis", "military_focus"} |->
        IF key = "basic_analysis" THEN <<"Event", "Weighted Efficiency", "size">>
        ELSE <<"Red Attack", "Red GBG Attack", "Total Score">> ]

\* _apply_preset
apply_preset(preset_key, selected_columns) ==
    IF preset_key \in DOMAIN COLUMN_PRESETS
    THEN ({ COLUMN_PRESETS[preset_key][i] : i \in DOMAIN COLUMN_PRESETS[preset_key] }
              \cap AvailableColumns) \cup {"name"}
    ELSE selected_columns

\* the search terms typed in the model, and the columns whose name contains them
SearchTerms == {"", "attack", "zzz"}

Matching(term, col) ==
    CASE term = ""       -> TRUE
      [] term = "attack" -> col = "Red Attack"
      [] OTHER           -> FALSE

\* _filter_columns_by_search: the groups left, each with its matching columns
FilteredIn(term, g) == { col \in AvailableIn(g) : Matching(term, col) }

FilteredGroups(term) == { g \in DOMAIN COLUMN_GROUPS : FilteredIn(term, g) # {} }

Visible(term) == UNION { FilteredIn(term, g) : g \in DOMAIN COLUMN_GROUPS }

\* column_order_map as a list: 'name', then the columns of the groups in order
RECURSIVE GroupOrder(_)
GroupOrder(g) ==
    IF g > Len(COLUMN_GROUPS) THEN <<>> ELSE COLUMN_GROUPS[g].columns \o GroupOrder(g + 1)

ColumnOrder == <<"name">> \o GroupOrder(1)

\* _sort_columns_by_group_order: every column of the model has a priority
sort_columns_by_group_order(selected_columns) ==
    LET Selected(col) == col \in selected_columns
    IN  SelectSeq(ColumnOrder, Selected)

\* list(a_set): the elements in the iteration order of the set, which the
\* hashes of the strings decide
RECURSIVE Orders(_)
Orders(S) ==
    IF S = {} THEN {<<>>}
    ELSE UNION { { <<x>> \o t : t \in Orders(S \ {x}) } : x \in S }

\* the end of a run of render_enhanced_column_selector: without a column left
\* by the search it returns list(selected_columns); otherwise the clicked
\* checkboxes are applied to the set, 'name' is added and the sorted list is
\* returned
FinishRun(selected, term, clicked) ==
    IF FilteredGroups(term) = {}
    THEN /\ selected_columns_set' = selected
         /\ returned_columns' \in Orders(selected)
    ELSE LET final == ((selected \ clicked) \cup (clicked \ selected)) \cup {"name"}
         IN  /\ selected_columns_set' = final
             /\ returned_columns' = sort_columns_by_group_order(final)

SelectorInit ==
    /\ selected_columns_set = {}
    /\ search_term = ""
    /\ returned_columns = <<>>
    /\ selector_pc = "fresh"
    /\ ParseIdle
    /\ ScoreIdle
    /\ LoadIdle
    /\ LegacyIdle
    /\ FilterIdle
    /\ PipelineIdle

\* the first run of a session: the default selection
FirstRender ==
    /\ selector_pc = "fresh"
    /\ FinishRun({ COLUMN_PRESETS["basic_analysis"][i] :
                       i \in DOMAIN COLUMN_PRESETS["basic_analysis"] } \cup {"name"},
                 search_term, {})
    /\ selector_pc' = "returned"
    /\ UNCHANGED search_term
    /\ UNCHANGED <<parseVars, scoreVars, loadVars, legacyVars, filterVars, pipelineVars>>

\* a preset button
ApplyPreset ==
    /\ selector_pc = "returned"
    /\ \E preset_key \in DOMAIN COLUMN_PRESETS :
           FinishRun(apply_preset(preset_key, selected_columns_set), search_term, {})
    /\ UNCHANGED <<search_term, selector_pc>>
    /\ UNCHANGED <<parseVars, scoreVars, loadVars, legacyVars, filterVars, pipelineVars>>

\* the search box
TypeSearch ==
    /\ selector_pc = "returned"
    /\ \E term \in SearchTerms :
           /\ search_term' = term
           /\ FinishRun(selected_columns_set, term, {})
    /\ UNCHANGED selector_pc
    /\ UNCHANGED <<parseVars, scoreVars, loadVars, legacyVars, filterVars, pipelineVars>>

\* "select all visible"
SelectAllVisible ==
    /\ selector_pc = "returned"
    /\ FinishRun(selected_columns_set \cup Visible(search_term), search_term, {})
    /\ UNCHANGED <<search_term, selector_pc>>
    /\ UNCHANGED <<parseVars, scoreVars, loadVars, legacyVars, filterVars, pipelineVars>>

\* "deselect all visible"
DeselectAllVisible ==
    /\ selector_pc = "returned"
    /\ FinishRun((selected_columns_set \ Visible(search_term)) \cup {"name"}, search_term, {})
    /\ UNCHANGED <<search_term, selector_pc>>
    /\ UNCHANGED <<parseVars, scoreVars, loadVars, legacyVars, filterVars, pipelineVars>>

\* "clear all selections"
ClearAll ==
    /\ selector_pc = "returned"
    /\ FinishRun({"name"}, search_term, {})
    /\ UNCHANGED <<search_term, selector_pc>>
    /\ UNCHANGED <<parseVars, scoreVars, loadVars, legacyVars, filterVars, pipelineVars>>

\* the "select all" button of a group that the search left
GroupSelectAll ==
    /\ selector_pc = "returned"
    /\ \E g \in FilteredGroups(search_term) :
           FinishRun(selected_columns_set \cup FilteredIn(search_term, g), search_term, {})
    /\ UNCHANGED <<search_term, selector_pc>>
    /\ UNCHANGED <<parseVars, scoreVars, loadVars, legacyVars, filterVars, pipelineVars>>

\* the "deselect all" button of a group that the search left
GroupDeselectAll ==
    /\ selector_pc = "returned"
    /\ \E g \in FilteredGroups(search_term) :
           FinishRun((selected_columns_set \ FilteredIn(search_term, g)) \cup {"name"},
                     search_term, {})
    /\ UNCHANGED <<search_term, selector_pc>>
    /\ UNCHANGED <<parseVars, scoreVars, loadVars, legacyVars, filterVars, pipelineVars>>

\* a checkbox of a visible column is ticked or unticked
ToggleCheckbox ==
    /\ selector_pc = "returned"
    /\ \E col \in Visible(search_term) \ {"name"} :
           FinishRun(selected_columns_set, search_term, {col})
    /\ UNCHANGED <<search_term, selector_pc>>
    /\ UNCHANGED <<parseVars, scoreVars, loadVars, legacyVars, filterVars, pipelineVars>>

SelectorNext ==
    \/ FirstRender
    \/ ApplyPreset
    \/ TypeSearch
    \/ SelectAllVisible
    \/ DeselectAllVisible
    \/ ClearAll
    \/ GroupSelectAll
    \/ GroupDeselectAll
    \/ ToggleCheckbox

SelectorSpec == SelectorInit /\ [][SelectorNext]_vars

\* the position of a column in the order of COLUMN_GROUPS, 'name' before all
PositionOf(col) == CHOOSE p \in DOMAIN ColumnOrder : ColumnOrder[p] = col

\* C30: after any sequence of selector actions 'name' is in the session's
\* set, and the returned list holds the selected columns, 'name' first and
\* the others in COLUMN_GROUPS order
C30_NameFirstGroupOrder ==
    selector_pc = "returned" =>
        /\ "name" \in selected_columns_set
        /\ { returned_columns[i] : i \in DOMAIN returned_columns } = selected_columns_set
        /\ returned_columns[1] = "name"
        /\ \A i, j \in DOMAIN returned_columns :
               i < j => PositionOf(returned_columns[i]) < PositionOf(returned_columns[j])
====
